---- MODULE Spec2Model ----
(***************************************************************************)
(* Verification model of the Litho_Layouts mask generators.                *)
(*                                                                         *)
(* Wafer-level lengths are integers in a model unit of 25 um (the wafer of *)
(* the code, 100000 um, is 4000 units; a 6000 um die is 240 units; the     *)
(* 2250 um flat exclusion is 90 units; a 50 um plating trace is 2 units).  *)
(* Every length that the code halves (wafer_diameter, unit extent, chip    *)
(* extent, trace width) is drawn even, so that each "/ 2.0" of the source  *)
(* is exact and all coordinates stay integers, as the float coordinates of *)
(* the source do for its configurations.                                   *)
(***************************************************************************)
EXTENDS Integers, Sequences, FiniteSets, TLC

VARIABLES
    pc,                  \* position of the build inside create_mask
    run,                 \* 1 = first build, 2 = the build repeated on the same configuration
    cfg,                 \* MaskConfig + chip_configs + omega_configs of the designer
    chip_variant_cells,  \* list returned by create_unit_cell
    unit_dims,           \* <<unit_width, unit_height>> returned by create_unit_cell
    valid_positions,     \* list returned by calculate_chip_positions_from_unit_grid
    cells,               \* cells created in self.layout
    insts,               \* child instances inserted in the mask cell, in order
    shapes,              \* shapes committed to (mask cell, layer)
    clock,               \* date read by datetime.now() in the last build
    first,               \* outputs of the first build, kept for comparison
    probe,               \* arguments of a direct call of a fit predicate
    probe_out,           \* results of the direct calls
    ring,                \* state of one ring-synthesis routine
    files                \* layout files written by generate_design, in order

vars == <<pc, run, cfg, chip_variant_cells, unit_dims, valid_positions, cells,
          insts, shapes, clock, first, probe, probe_out, ring, files>>

build_vars == <<pc, run, cfg, chip_variant_cells, unit_dims, valid_positions,
                cells, insts, shapes, clock, first, files>>

probe_vars == <<probe, probe_out>>

-----------------------------------------------------------------------------
(* Bounds of the model *)

\* chip_count_x and chip_count_y range over 1..MaxCount
MaxCount == 2

\* datetime.now() returns a date in 0..MaxDate
MaxDate == 1

\* probe coordinates range over -MaxProbe..MaxProbe
MaxProbe == 5

\* probe extents range over 1..MaxProbeSize
MaxProbeSize == 4

\* probe radii range over 1..MaxProbeRadius
MaxProbeRadius == 6

\* the exhaustiveness check looks ScanMargin unit cells beyond the scanned range
ScanMargin == 2

\* converted lengths range over -MaxLength..MaxLength, in units of 0.1 nm
MaxLength == 250

\* dc_pad_count of a die runs from 2 to MaxPads + 1
MaxPads == 2

-----------------------------------------------------------------------------
(* Program constants *)

\* flat_exclusion_zone = 2250.0 um, in model units of 25 um
flat_exclusion_zone == 90

-----------------------------------------------------------------------------
(* Arithmetic helpers *)

Abs(x) == IF x < 0 THEN -x ELSE x

Max2(a, b) == IF a >= b THEN a ELSE b

\* int(math.ceil(a / b)) for positive integers a, b
ceil_div(a, b) == (a + b - 1) \div b

RECURSIVE isqrt_search(_, _, _)
isqrt_search(s, lo, hi) ==
    IF lo >= hi THEN lo
    ELSE LET mid == (lo + hi + 1) \div 2
         IN  IF mid * mid <= s THEN isqrt_search(s, mid, hi)
                               ELSE isqrt_search(s, lo, mid - 1)

\* math.sqrt(s) for 0 <= s <= hi * hi: the real square root, kept as its
\* integer part and whether it is exact (a float compares with an integer
\* exactly as this pair does for these magnitudes)
math_sqrt(s, hi) ==
    LET r == isqrt_search(s, 0, hi)
    IN  [floor |-> r, exact |-> (r * r = s)]

\* dist = math.sqrt(cx * cx + cy * cy)
dist(cx, cy) == math_sqrt(cx * cx + cy * cy, Abs(cx) + Abs(cy))

\* mutant: the comparison written dist >= usable_radius
dist_ge_mut(d, usable_radius) == d.floor >= usable_radius

\* dist > usable_radius
dist_gt(d, usable_radius) ==
    \/ d.floor > usable_radius
    \/ d.floor = usable_radius /\ ~d.exact

-----------------------------------------------------------------------------
(* MaskConfig-derived values *)

\* the class attribute wafer_radius = wafer_diameter / 2.0; the configurations of
\* the model keep the two attributes consistent
wafer_radius(c) == c.wafer_diameter \div 2

usable_radius_of(c) == (c.wafer_diameter - 2 * c.wafer_buffer) \div 2

flat_y_of(c) == -wafer_radius(c) + c.flat_depth

base_chip_config(c) == c.chip_configs[1]

-----------------------------------------------------------------------------
(* The two fit predicates *)

corners_of(chip_x, chip_y, chip_width, chip_height) ==
    << <<chip_x, chip_y>>,
       <<chip_x + chip_width, chip_y>>,
       <<chip_x, chip_y + chip_height>>,
       <<chip_x + chip_width, chip_y + chip_height>> >>

\* for cx, cy in corners: if dist > usable_radius: return False; return True
RECURSIVE corners_loop(_, _, _)
corners_loop(corners, i, usable_radius) ==
    IF i > Len(corners) THEN TRUE
    ELSE IF dist_gt(dist(corners[i][1], corners[i][2]), usable_radius) THEN FALSE
    ELSE corners_loop(corners, i + 1, usable_radius)

chip_fits_in_wafer(chip_x, chip_y, chip_width, chip_height, usable_radius) ==
    corners_loop(corners_of(chip_x, chip_y, chip_width, chip_height), 1, usable_radius)

\* mutant: the comparison written chip_bottom <= flat_y + flat_exclusion_zone
too_close_le_mut(c, chip_x, chip_y, chip_width, chip_height) ==
    chip_y <= flat_y_of(c) + flat_exclusion_zone

chip_too_close_to_flat(c, chip_x, chip_y, chip_width, chip_height) ==
    LET flat_y      == flat_y_of(c)
        chip_bottom == chip_y
    IN  IF chip_bottom < flat_y + flat_exclusion_zone THEN TRUE ELSE FALSE


-----------------------------------------------------------------------------
(* Configurations the designer is constructed with *)

chip_config(w, h) == [chip_width |-> w, chip_height |-> h]

omega_config(r) == [is_none |-> FALSE, center_radius |-> r]

omega_none == [is_none |-> TRUE, center_radius |-> 0]

\* chip_configs lists for a unit cell of n slots: one config per slot, a list
\* shorter than the unit cell, and a list whose last variant is a wider die
ChipConfigLists(w, h, n) ==
    { [i \in 1..n |-> chip_config(w, h)],
      << chip_config(w, h) >>,
      [i \in 1..n |-> IF i = n /\ n > 1 THEN chip_config(w + 120, h)
                                        ELSE chip_config(w, h)] }

\* omega_configs in the pattern of the defaults: every slot but the last has rings
OmegaConfigList(n) ==
    [i \in 1..n |-> IF i = n THEN omega_none ELSE omega_config(i)]

Diameters == {320, 480, 640}

Buffers == {0, 40}

\* dies are square, as every chip configuration of the source is
ChipExtents == {120, 240}

Spacings == {0, 20}

\* the two overlay flags are switched on and off together
ConfigsFor(nx, ny) ==
    { [wafer_diameter    |-> d,
       wafer_buffer      |-> b,
       flat_depth        |-> 100,
       flat_length       |-> 1300,
       chip_count_x      |-> nx,
       chip_count_y      |-> ny,
       chip_spacing      |-> s,
       electroplating    |-> overlays,
       electroplating_tab_width |-> 2,
       edge_fill_enabled |-> overlays,
       chip_configs      |-> cc,
       omega_configs     |-> OmegaConfigList(nx * ny)] :
      d \in Diameters, b \in Buffers, s \in Spacings, overlays \in BOOLEAN,
      cc \in UNION { ChipConfigLists(w, w, nx * ny) : w \in ChipExtents } }

Configs == UNION { ConfigsFor(nx, ny) : nx \in 1..MaxCount, ny \in 1..MaxCount }

\* MaskConfig() and the six default variants, in model units
DefaultConfig ==
    [wafer_diameter    |-> 4000,
     wafer_buffer      |-> 120,
     flat_depth        |-> 100,
     flat_length       |-> 1300,
     chip_count_x      |-> 2,
     chip_count_y      |-> 3,
     chip_spacing      |-> 0,
     electroplating    |-> TRUE,
     electroplating_tab_width |-> 2,
     edge_fill_enabled |-> TRUE,
     chip_configs      |-> [i \in 1..6 |-> chip_config(240, 240)],
     omega_configs     |-> OmegaConfigList(6)]

-----------------------------------------------------------------------------
(* create_unit_cell *)

\* mutant: unit_width computed from chip_count_y
unit_width_swapped_mut(c) ==
    c.chip_count_y * base_chip_config(c).chip_width + (c.chip_count_y - 1) * c.chip_spacing

unit_width_of(c) ==
    c.chip_count_x * base_chip_config(c).chip_width + (c.chip_count_x - 1) * c.chip_spacing

unit_height_of(c) ==
    c.chip_count_y * base_chip_config(c).chip_height + (c.chip_count_y - 1) * c.chip_spacing

\* slot chip_index (0-based), filled in the order "for row: for col:"
variant_slot(c, chip_index) ==
    LET col == chip_index % c.chip_count_x
        row == chip_index \div c.chip_count_x
        cc  == IF chip_index < Len(c.chip_configs) THEN c.chip_configs[chip_index + 1]
                                                   ELSE base_chip_config(c)
        oc  == IF chip_index < Len(c.omega_configs) THEN c.omega_configs[chip_index + 1]
                                                    ELSE omega_none
    IN  [cell         |-> chip_index,
         local_x      |-> col * (base_chip_config(c).chip_width + c.chip_spacing),
         local_y      |-> row * (base_chip_config(c).chip_height + c.chip_spacing),
         chip_config  |-> cc,
         omega_config |-> oc]

unit_cell_variants(c) ==
    [k \in 1..(c.chip_count_x * c.chip_count_y) |-> variant_slot(c, k - 1)]

unit_cell_names(c) ==
    {<<"unit_cell_2x3", 0>>}
    \cup { <<"chip_variant", k - 1>> : k \in 1..(c.chip_count_x * c.chip_count_y) }
    \cup { <<"chip_wrapper", k - 1>> : k \in 1..(c.chip_count_x * c.chip_count_y) }

-----------------------------------------------------------------------------
(* calculate_chip_positions_from_unit_grid *)

\* mutant: the number of units counted per side of the centre, then halved again by the range
max_units_halved_mut(c, unit_extent) == ceil_div(c.wafer_diameter, unit_extent) \div 2

max_units(c, unit_extent) == ceil_div(c.wafer_diameter, unit_extent) + 1

\* range(-max_units // 2, max_units // 2 + 1)
range_lo(m) == (-m) \div 2

range_hi(m) == m \div 2

\* the die of variant slot v (1-based index in the list) in unit cell (unit_row, unit_col)
candidate(unit_width, unit_height, variants, unit_row, unit_col, v) ==
    LET grid_start_x == -(unit_width \div 2)
        grid_start_y == -(unit_height \div 2)
        unit_x == grid_start_x + unit_col * unit_width
        unit_y == grid_start_y + unit_row * unit_height
    IN  [chip_x |-> unit_x + variants[v].local_x,
         chip_y |-> unit_y + variants[v].local_y,
         variant_idx |-> v - 1,
         unit_row |-> unit_row,
         unit_col |-> unit_col]

\* mutant: a die is kept only when every die of its unit cell fits
accepts_whole_unit_mut(c, unit_width, unit_height, variants, unit_row, unit_col, v) ==
    \A v2 \in 1..Len(variants) :
        LET d  == candidate(unit_width, unit_height, variants, unit_row, unit_col, v2)
            bc == base_chip_config(c)
        IN  /\ chip_fits_in_wafer(d.chip_x, d.chip_y, bc.chip_width, bc.chip_height,
                                  usable_radius_of(c))
            /\ ~chip_too_close_to_flat(c, d.chip_x, d.chip_y, bc.chip_width, bc.chip_height)

\* the condition of the "if" that guards valid_positions.append
accepts(c, unit_width, unit_height, variants, unit_row, unit_col, v) ==
    LET d  == candidate(unit_width, unit_height, variants, unit_row, unit_col, v)
        bc == base_chip_config(c)
    IN  /\ chip_fits_in_wafer(d.chip_x, d.chip_y, bc.chip_width, bc.chip_height,
                              usable_radius_of(c))
        /\ ~chip_too_close_to_flat(c, d.chip_x, d.chip_y, bc.chip_width, bc.chip_height)

\* mutant: the variant slots of a unit cell visited last to first
loop_order_reversed_mut(j, ncols, nvars) ==
    [row |-> j \div (ncols * nvars), col |-> (j \div nvars) % ncols,
     v |-> nvars - 1 - (j % nvars)]

\* the j-th candidate (0-based) of the three nested loops:
\* unit_row outermost, unit_col next, variant_idx innermost
loop_order(j, ncols, nvars) ==
    [row |-> j \div (ncols * nvars), col |-> (j \div nvars) % ncols, v |-> j % nvars]

calculate_chip_positions_from_unit_grid(c, unit_width, unit_height, variants) ==
    LET mx    == max_units(c, unit_width)
        my    == max_units(c, unit_height)
        ncols == range_hi(mx) - range_lo(mx) + 1
        nrows == range_hi(my) - range_lo(my) + 1
        nvars == Len(variants)
        at(j) == LET o == loop_order(j, ncols, nvars)
                 IN  [unit_row |-> range_lo(my) + o.row,
                      unit_col |-> range_lo(mx) + o.col,
                      v        |-> o.v + 1]
        all   == [i \in 1..(nrows * ncols * nvars) |-> at(i - 1)]
        kept  == SelectSeq(all, LAMBDA k :
                     accepts(c, unit_width, unit_height, variants, k.unit_row, k.unit_col, k.v))
    IN  [i \in 1..Len(kept) |->
            LET d == candidate(unit_width, unit_height, variants,
                               kept[i].unit_row, kept[i].unit_col, kept[i].v)
            IN  <<d.chip_x, d.chip_y, d.variant_idx>>]


-----------------------------------------------------------------------------
(* Shapes committed to the mask cell *)

shape(layer, kind, g) == [layer |-> layer, kind |-> kind, g |-> g]

\* create_mask_plate_guide and create_wafer_guide
guide_shapes(c) ==
    { shape("guide", "mask_plate", <<-2540, -2540, 2540, 2540>>),
      shape("guide", "wafer_region",
            <<wafer_radius(c), -(c.flat_length \div 2), c.flat_length \div 2, flat_y_of(c)>>) }

\* create_edge_fill: wafer_region - usable_region, on the metal and the DC layer
edge_fill_shapes(c) ==
    { shape(l, "edge_fill", <<wafer_radius(c), flat_y_of(c), usable_radius_of(c)>>) :
      l \in {"metal", "dc"} }

SeqMin(q, k) == CHOOSE m \in { q[i][k] : i \in 1..Len(q) } :
                    \A i \in 1..Len(q) : m <= q[i][k]

SeqMax(q, k) == CHOOSE m \in { q[i][k] : i \in 1..Len(q) } :
                    \A i \in 1..Len(q) : m >= q[i][k]

\* mutant: the bounding box taken from the first placement only
contact_bar_shapes_first_die_mut(c, chip_positions) ==
    LET bc   == base_chip_config(c)
        R    == usable_radius_of(c)
        half == (2 * bc.chip_width) \div 2
    IN  { shape("metal", "top_bar",    <<-half, chip_positions[1][2] + bc.chip_height, half, R>>),
          shape("metal", "left_bar",   <<-R, -half, chip_positions[1][1], half>>),
          shape("metal", "right_bar",  <<chip_positions[1][1] + bc.chip_width, -half, R, half>>),
          shape("metal", "bottom_bar", <<-half, flat_y_of(c), half, chip_positions[1][2]>>) }

\* create_electroplating_contact_bars, for a non-empty chip_positions
contact_bar_shapes(c, chip_positions) ==
    LET bc         == base_chip_config(c)
        R          == usable_radius_of(c)
        min_chip_x == SeqMin(chip_positions, 1)
        max_chip_x == SeqMax(chip_positions, 1) + bc.chip_width
        min_chip_y == SeqMin(chip_positions, 2)
        max_chip_y == SeqMax(chip_positions, 2) + bc.chip_height
        bar_width  == 2 * bc.chip_width
        half       == bar_width \div 2
    IN  { shape("metal", "top_bar",    <<-half, max_chip_y, half, R>>),
          shape("metal", "left_bar",   <<-R, -half, min_chip_x, half>>),
          shape("metal", "right_bar",  <<max_chip_x, -half, R, half>>),
          shape("metal", "bottom_bar", <<-half, flat_y_of(c), half, min_chip_y>>) }

\* create_studded_alignment_ring(ring_diameter=100.0): 209 studs between the
\* radii 49900 um and 50100 um, on the metal and the DC layer
studded_ring_shapes ==
    { shape(l, "studded_ring", <<1996, 2004, 209>>) : l \in {"metal", "dc"} }

\* create_electroplating_dicing_traces; the ends of a trace on the usable
\* circle are recorded rounded down to the model unit
dicing_trace_shapes(c, chip_positions) ==
    LET bc       == base_chip_config(c)
        R        == usable_radius_of(c)
        tab      == c.electroplating_tab_width
        line     == flat_y_of(c) + flat_exclusion_zone
        x_coords == { chip_positions[i][1] : i \in 1..Len(chip_positions) }
                    \cup { chip_positions[i][1] + bc.chip_width : i \in 1..Len(chip_positions) }
        y_coords == { chip_positions[i][2] : i \in 1..Len(chip_positions) }
                    \cup { chip_positions[i][2] + bc.chip_height : i \in 1..Len(chip_positions) }
        extent(v) == math_sqrt(R * R - v * v, R)
        vertical ==
            { shape("metal", "vtrace",
                    <<x - tab \div 2, Max2(-extent(x).floor, line), x + tab \div 2, extent(x).floor>>) :
              x \in { v \in x_coords : /\ Abs(v) < R
                                       /\ dist_gt(extent(v), line) } }
        horizontal ==
            { shape("metal", "htrace",
                    <<-extent(y).floor, y - tab \div 2, extent(y).floor, y + tab \div 2>>) :
              y \in { v \in y_coords : v >= line /\ Abs(v) < R } }
    IN  vertical \cup horizontal

\* create_alignment_cross(cell, x, y, size=500.0, linewidth=50.0)
alignment_cross_shapes(x_center, y_center) ==
    UNION { { shape(l, "h_bar", <<x_center - 10, y_center - 1, x_center + 10, y_center + 1>>),
              shape(l, "v_bar", <<x_center - 1, y_center - 10, x_center + 1, y_center + 10>>) } :
            l \in {"metal", "dc"} }

\* create_corner_alignment_marks(cell): crosses at (+-33000, +-30000) um
corner_mark_shapes ==
    UNION { alignment_cross_shapes(x, y) : x \in {-1320, 1320}, y \in {-1200, 1200} }

\* create_mask_labels: four lines per layer, the second one date_str; a line is
\* recorded as <<line number, date shown or -1, label_x, current_y>>
mask_label_shapes(date_str) ==
    { shape(l, "text",
            <<n, IF n = 2 THEN date_str ELSE -1, -2540 + 200, (2540 - 200 - 60) - (n - 1) * 66>>) :
      l \in {"metal", "dc"}, n \in 1..4 }

-----------------------------------------------------------------------------
(* The build: MaskDesigner.create_mask, one action per call it makes *)

NoFirst == [done |-> FALSE, positions |-> <<>>, insts |-> <<>>, shapes |-> {},
            cells |-> {}, clock |-> 0]

NoProbe == [chip_x |-> 0, chip_y |-> 0, chip_width |-> 0, chip_height |-> 0,
            usable_radius |-> 0, wafer_diameter |-> 0, flat_depth |-> 0,
            flat_length |-> 0]

NoProbeOut == [fits_called |-> FALSE, fits |-> FALSE,
               flat_called |-> FALSE, too_close |-> FALSE]

NoRing ==
    [routine |-> "none", gold |-> [aperture_radius |-> 0], pc |-> "done", i |-> 1, k |-> 1,
     ring_region |-> [pieces |-> {}, merged |-> FALSE, cuts |-> {}, booleans |-> 0, merges |-> 0,
                      merge_after |-> FALSE],
     omega_region |-> [pieces |-> {}, merged |-> FALSE, cuts |-> {}, booleans |-> 0, merges |-> 0,
                       merge_after |-> FALSE],
     ground_region |-> [pieces |-> {}, merged |-> FALSE, cuts |-> {}, booleans |-> 0, merges |-> 0,
                        merge_after |-> FALSE],
     gap_boxes |-> <<>>, cell_shapes |-> <<>>]

BuildStart(c) ==
    /\ pc = "create_mask"
    /\ cfg = c
    /\ chip_variant_cells = <<>>
    /\ unit_dims = <<0, 0>>
    /\ valid_positions = <<>>
    /\ cells = {}
    /\ insts = <<>>
    /\ shapes = {}
    /\ files = <<>>

Init ==
    /\ \E c \in Configs \cup {DefaultConfig} : BuildStart(c)
    /\ run = 1
    /\ clock = 0
    /\ first = NoFirst
    /\ probe = NoProbe
    /\ probe_out = NoProbeOut
    /\ ring = NoRing

\* create_mask up to the call of create_full_wafer_layout
create_mask_guides ==
    /\ pc = "create_mask"
    /\ cells' = cells \cup {<<"mask_5inch", 0>>}
    /\ shapes' = shapes \cup guide_shapes(cfg)
    /\ pc' = "create_unit_cell"
    /\ UNCHANGED <<run, cfg, chip_variant_cells, unit_dims, valid_positions, insts,
                   clock, first, probe, probe_out, ring, files>>

create_unit_cell ==
    /\ pc = "create_unit_cell"
    /\ cells' = cells \cup unit_cell_names(cfg)
    /\ chip_variant_cells' = unit_cell_variants(cfg)
    /\ unit_dims' = <<unit_width_of(cfg), unit_height_of(cfg)>>
    /\ pc' = "calculate_chip_positions"
    /\ UNCHANGED <<run, cfg, valid_positions, insts, shapes, clock, first,
                   probe, probe_out, ring, files>>

\* mutant: the scan empties the chip_variant_cells list it iterates over
calculate_consuming_mut ==
    /\ pc = "calculate_chip_positions"
    /\ valid_positions' = calculate_chip_positions_from_unit_grid(
                              cfg, unit_dims[1], unit_dims[2], chip_variant_cells)
    /\ chip_variant_cells' = <<>>
    /\ pc' = "place_chips"
    /\ UNCHANGED <<run, cfg, unit_dims, cells, insts, shapes,
                   clock, first, probe, probe_out, ring, files>>

calculate_chip_positions ==
    /\ pc = "calculate_chip_positions"
    /\ valid_positions' = calculate_chip_positions_from_unit_grid(
                              cfg, unit_dims[1], unit_dims[2], chip_variant_cells)
    /\ pc' = "place_chips"
    /\ UNCHANGED <<run, cfg, chip_variant_cells, unit_dims, cells, insts, shapes,
                   clock, first, probe, probe_out, ring, files>>

\* for chip_x, chip_y, variant_idx in chip_positions: wafer_cell.insert(...)
\* mutant: the placement step resets every variant to the base chip configuration
place_chips_normalising_mut ==
    /\ pc = "place_chips"
    /\ insts' = insts \o [i \in 1..Len(valid_positions) |->
                    [x    |-> valid_positions[i][1],
                     y    |-> valid_positions[i][2],
                     cell |-> <<"chip_wrapper",
                                chip_variant_cells[valid_positions[i][3] + 1].cell>>]]
    /\ cfg' = [cfg EXCEPT !.chip_configs =
                   [k \in 1..Len(cfg.chip_configs) |-> base_chip_config(cfg)]]
    /\ pc' = "edge_fill"
    /\ UNCHANGED <<run, chip_variant_cells, unit_dims, valid_positions, cells,
                   shapes, clock, first, probe, probe_out, ring, files>>

\* mutant: every placement gets a copy of the wrapper cell of its variant
place_chips_copying_mut ==
    /\ pc = "place_chips"
    /\ insts' = insts \o [i \in 1..Len(valid_positions) |->
                    [x    |-> valid_positions[i][1],
                     y    |-> valid_positions[i][2],
                     cell |-> <<"chip_copy", i>>]]
    /\ cells' = cells \cup { <<"chip_copy", i>> : i \in 1..Len(valid_positions) }
    /\ pc' = "edge_fill"
    /\ UNCHANGED <<run, cfg, chip_variant_cells, unit_dims, valid_positions,
                   shapes, clock, first, probe, probe_out, ring, files>>

place_chips ==
    /\ pc = "place_chips"
    /\ insts' = insts \o [i \in 1..Len(valid_positions) |->
                    [x    |-> valid_positions[i][1],
                     y    |-> valid_positions[i][2],
                     cell |-> <<"chip_wrapper",
                                chip_variant_cells[valid_positions[i][3] + 1].cell>>]]
    /\ pc' = "edge_fill"
    /\ UNCHANGED <<run, cfg, chip_variant_cells, unit_dims, valid_positions, cells,
                   shapes, clock, first, probe, probe_out, ring, files>>

create_edge_fill ==
    /\ pc = "edge_fill"
    /\ cfg.edge_fill_enabled
    /\ shapes' = shapes \cup edge_fill_shapes(cfg)
    /\ pc' = "contact_bars"
    /\ UNCHANGED <<run, cfg, chip_variant_cells, unit_dims, valid_positions, cells,
                   insts, clock, first, probe, probe_out, ring, files>>

skip_edge_fill ==
    /\ pc = "edge_fill"
    /\ ~cfg.edge_fill_enabled
    /\ pc' = "dicing_traces"
    /\ UNCHANGED <<run, cfg, chip_variant_cells, unit_dims, valid_positions, cells,
                   insts, shapes, clock, first, probe, probe_out, ring, files>>

\* min() of an empty sequence raises ValueError, which nothing catches
create_electroplating_contact_bars ==
    /\ pc = "contact_bars"
    /\ IF valid_positions = <<>>
       THEN /\ pc' = "ValueError"
            /\ UNCHANGED shapes
       ELSE /\ shapes' = shapes \cup contact_bar_shapes(cfg, valid_positions)
            /\ pc' = "studded_ring"
    /\ UNCHANGED <<run, cfg, chip_variant_cells, unit_dims, valid_positions, cells,
                   insts, clock, first, probe, probe_out, ring, files>>

create_studded_alignment_ring ==
    /\ pc = "studded_ring"
    /\ shapes' = shapes \cup studded_ring_shapes
    /\ pc' = "dicing_traces"
    /\ UNCHANGED <<run, cfg, chip_variant_cells, unit_dims, valid_positions, cells,
                   insts, clock, first, probe, probe_out, ring, files>>

create_electroplating_dicing_traces ==
    /\ pc = "dicing_traces"
    /\ cfg.electroplating
    /\ shapes' = shapes \cup dicing_trace_shapes(cfg, valid_positions)
    /\ pc' = "corner_marks"
    /\ UNCHANGED <<run, cfg, chip_variant_cells, unit_dims, valid_positions, cells,
                   insts, clock, first, probe, probe_out, ring, files>>

skip_dicing_traces ==
    /\ pc = "dicing_traces"
    /\ ~cfg.electroplating
    /\ pc' = "corner_marks"
    /\ UNCHANGED <<run, cfg, chip_variant_cells, unit_dims, valid_positions, cells,
                   insts, shapes, clock, first, probe, probe_out, ring, files>>

create_corner_alignment_marks ==
    /\ pc = "corner_marks"
    /\ shapes' = shapes \cup corner_mark_shapes
    /\ pc' = "mask_labels"
    /\ UNCHANGED <<run, cfg, chip_variant_cells, unit_dims, valid_positions, cells,
                   insts, clock, first, probe, probe_out, ring, files>>

\* the date datetime.now() returns: any date not before the last one read
now_dates == clock..MaxDate

\* create_mask_labels; create_mask returns after it
create_mask_labels ==
    /\ pc = "mask_labels"
    /\ \E date_str \in now_dates :
          /\ clock' = date_str
          /\ shapes' = shapes \cup mask_label_shapes(date_str)
    /\ pc' = "built"
    /\ UNCHANGED <<run, cfg, chip_variant_cells, unit_dims, valid_positions, cells,
                   insts, first, probe, probe_out, ring, files>>

\* the program is run again on the same configuration: a new MaskDesigner, a new layout
build_again ==
    /\ pc = "built"
    /\ run = 1
    /\ first' = [done |-> TRUE, positions |-> valid_positions, insts |-> insts,
                 shapes |-> shapes, cells |-> cells, clock |-> clock]
    /\ run' = 2
    /\ pc' = "create_mask"
    /\ chip_variant_cells' = <<>>
    /\ unit_dims' = <<0, 0>>
    /\ valid_positions' = <<>>
    /\ cells' = {}
    /\ insts' = <<>>
    /\ shapes' = {}
    /\ UNCHANGED <<cfg, clock, probe, probe_out, ring, files>>

\* mutant: the hierarchical layout written as soon as the chips are placed
write_inspect_early_mut ==
    /\ pc = "edge_fill"
    /\ files' = Append(files, [path |-> "inspect", cells |-> cells, insts |-> insts,
                                shapes |-> shapes])
    /\ pc' = "flatten"
    /\ UNCHANGED <<run, cfg, chip_variant_cells, unit_dims, valid_positions, cells,
                   insts, shapes, clock, first, probe, probe_out, ring>>

\* generate_design after create_mask: the layer names are set and the
\* hierarchical layout is written
write_inspect ==
    /\ pc = "built"
    /\ files' = Append(files, [path |-> "inspect", cells |-> cells, insts |-> insts,
                                shapes |-> shapes])
    /\ pc' = "flatten"
    /\ UNCHANGED <<run, cfg, chip_variant_cells, unit_dims, valid_positions, cells,
                   insts, shapes, clock, first, probe, probe_out, ring>>

\* every instance replaced by the shapes of its cell
flattened(chip_insts) ==
    { shape("chip", "flattened", <<chip_insts[i].x, chip_insts[i].y, chip_insts[i].cell[2]>>) :
        i \in 1..Len(chip_insts) }

\* generate_design: every cell is flattened, every layer merged, and the
\* production layout is written
flatten_and_write_prod ==
    /\ pc = "flatten"
    /\ insts' = <<>>
    /\ shapes' = shapes \cup flattened(insts)
    /\ files' = Append(files, [path |-> "prod", cells |-> cells, insts |-> <<>>,
                                shapes |-> shapes \cup flattened(insts)])
    /\ pc' = "exported"
    /\ UNCHANGED <<run, cfg, chip_variant_cells, unit_dims, valid_positions, cells,
                   clock, first, probe, probe_out, ring>>

Next ==
    \/ create_mask_guides
    \/ create_unit_cell
    \/ calculate_chip_positions
    \/ place_chips
    \/ create_edge_fill
    \/ skip_edge_fill
    \/ create_electroplating_contact_bars
    \/ create_studded_alignment_ring
    \/ create_electroplating_dicing_traces
    \/ skip_dicing_traces
    \/ create_corner_alignment_marks
    \/ create_mask_labels
    \/ build_again
    \/ write_inspect
    \/ flatten_and_write_prod

Spec == Init /\ [][Next]_vars


-----------------------------------------------------------------------------
(* Direct calls of the two fit predicates on arbitrary arguments *)

\* a wafer of radius 100 units whose flat-exclusion line is y = -2, with a
\* flat chord of half-length 3
Probes ==
    [chip_x : -MaxProbe..MaxProbe, chip_y : -MaxProbe..MaxProbe,
     chip_width : 1..MaxProbeSize, chip_height : 1..MaxProbeSize,
     usable_radius : 1..MaxProbeRadius,
     wafer_diameter : {200}, flat_depth : {8}, flat_length : {6}]

InitPred ==
    /\ probe \in Probes
    /\ probe_out = NoProbeOut
    /\ BuildStart(DefaultConfig)
    /\ run = 1
    /\ clock = 0
    /\ first = NoFirst
    /\ ring = NoRing

call_chip_fits_in_wafer ==
    /\ ~probe_out.fits_called
    /\ probe_out' = [probe_out EXCEPT
                        !.fits_called = TRUE,
                        !.fits = chip_fits_in_wafer(probe.chip_x, probe.chip_y, probe.chip_width,
                                                    probe.chip_height, probe.usable_radius)]
    /\ UNCHANGED <<build_vars, probe, ring>>

call_chip_too_close_to_flat ==
    /\ ~probe_out.flat_called
    /\ probe_out' = [probe_out EXCEPT
                        !.flat_called = TRUE,
                        !.too_close = chip_too_close_to_flat(probe, probe.chip_x, probe.chip_y,
                                                             probe.chip_width, probe.chip_height)]
    /\ UNCHANGED <<build_vars, probe, ring>>

NextPred ==
    \/ call_chip_fits_in_wafer
    \/ call_chip_too_close_to_flat

SpecPred == InitPred /\ [][NextPred]_vars

-----------------------------------------------------------------------------
(* Ring synthesis: the order of the region operations in the three
   create_omega routines.  A region is the set of additive pieces it holds,
   the set of gap boxes subtracted from it, and whether its polygons are
   merged (the result of a boolean operation or of merge()).  It also
   counts the boolean operations and the merge() calls applied to it, and
   records whether merge() was called after its last boolean operation.
   Lengths here are in µm; the wire conditions are evaluated in tenths of a
   µm so that h_offset = outer_radius * 0.6 stays an integer. *)

\* the ring_type column of the positions list
positions == <<"bottom", "bottom", "top", "top">>

ring_piece(i) == [kind |-> "ring", n |-> i, ring_type |-> positions[i]]

\* the y column of the positions list relative to the die centre, in tenths
\* of a µm: y_center + offset for the first two rings, y_center - offset for
\* the last two (offset_x10 is defined below)
ring_cy_x10(offset, i) == IF i \in {1, 2} THEN offset ELSE 0 - offset

\* mutant: the 'top' branch of the gap box taken for every ring
gap_box_y_top_mut(ring_type, cy, outer_radius, trace_width) ==
    <<cy, cy + outer_radius + trace_width>>

\* the y range of the gap box: if ring_type == 'top' from cy up to
\* cy + outer_radius + trace_width, else from cy - outer_radius - trace_width
\* up to cy
gap_box_y(ring_type, cy, outer_radius, trace_width) ==
    IF ring_type = "top" THEN <<cy, cy + outer_radius + trace_width>>
    ELSE <<cy - outer_radius - trace_width, cy>>

\* mutant: a gap box that stops at the centre line of the trace instead of
\* running past the outer edge
gap_box_short_mut(g, i) ==
    LET outer == 10 * g.omega_center_radius + 5 * g.omega_trace_width
        cy == ring_cy_x10(outer + 10 * g.omega_spacing, i)
    IN [kind |-> "gap", n |-> i, ring_type |-> positions[i], cy |-> cy,
        x_half |-> 5 * g.omega_trace_gap,
        y1 |-> IF positions[i] = "top" THEN cy ELSE cy - 10 * g.omega_center_radius,
        y2 |-> IF positions[i] = "top" THEN cy + 10 * g.omega_center_radius ELSE cy]

\* pya.Box(cx - trace_gap / 2, y1, cx + trace_gap / 2, y2) of ring i of gold
\* configuration g; x is kept relative to the ring centre
gap_box(g, i) ==
    LET outer == 10 * g.omega_center_radius + 5 * g.omega_trace_width
        cy == ring_cy_x10(outer + 10 * g.omega_spacing, i)
        y == gap_box_y(positions[i], cy, outer, 10 * g.omega_trace_width)
    IN [kind |-> "gap", n |-> i, ring_type |-> positions[i], cy |-> cy,
        x_half |-> 5 * g.omega_trace_gap, y1 |-> y[1], y2 |-> y[2]]

piece(name) == [kind |-> name, n |-> 0, ring_type |-> "none"]

EmptyRegion ==
    [pieces |-> {}, merged |-> FALSE, cuts |-> {}, booleans |-> 0, merges |-> 0,
     merge_after |-> FALSE]

\* outer_region - inner_region
annulus(i) ==
    [EmptyRegion EXCEPT !.pieces = {ring_piece(i)}, !.merged = TRUE, !.booleans = 1]

\* region -= Region(gap_box)
region_minus(region, g) ==
    [region EXCEPT !.merged = TRUE, !.cuts = region.cuts \cup {g},
                   !.booleans = region.booleans + 1, !.merge_after = FALSE]

\* mutant: merge() left out
region_merge_skipped_mut(region) == region

\* region.merge()
region_merge(region) ==
    [region EXCEPT !.merged = TRUE, !.merges = region.merges + 1, !.merge_after = TRUE]

\* region += other, region.insert(shape): the polygons are joined, not merged
region_plus(region, ps) ==
    [region EXCEPT !.pieces = region.pieces \cup ps, !.merged = FALSE]

\* the shapes MaskDesigner.create_omega inserts after the ring loop, in order
create_omega_pieces ==
    <<"right_conn_box", "left_conn_box", "top_right_feed_box", "top_left_feed_box",
      "bottom_right_feed_box", "bottom_left_feed_box", "top_left_cpw_box",
      "top_right_cpw_box", "middle_connector_box", "left_taper_polygon",
      "right_taper_polygon">>

\* the shapes the 6x6 create_omega_resonators inserts after the ring loop
chip6x6_pieces ==
    <<"feed1_poly", "conn2_poly", "feed3_poly", "feed4_poly", "conn5_poly",
      "feed6_poly", "left_cpw_box", "right_cpw_box", "middle_conn_box",
      "left_taper", "right_taper">>

\* the shapes the 5x5 create_omega_resonators inserts into omega_region
\* before the connecting wires
chip5x5_pieces ==
    <<"feed1", "conn2", "feed3", "feed4", "conn5", "feed6", "middle_connector",
      "left_taper", "right_taper">>

\* 5x5 feed geometry at cx = 0, in tenths of a µm
outer_radius_x10(g) == 10 * g.omega_center_radius + 5 * g.omega_trace_width

h_offset_x10(g) == 6 * g.omega_center_radius + 3 * g.omega_trace_width

offset_x10(g) == outer_radius_x10(g) + 10 * g.omega_spacing

gap_shift_x10(g) == 5 * g.omega_trace_gap + 5 * g.omega_trace_width

feed1_bottom_x10(g) ==
    (0 - offset_x10(g) - h_offset_x10(g)) - gap_shift_x10(g) - h_offset_x10(g)

feed6_top_x10(g) ==
    (0 + offset_x10(g) + h_offset_x10(g)) + gap_shift_x10(g) + h_offset_x10(g)

left_taper_end_x10(g) ==
    10 * ((0 - g.aperture_radius) - g.omega_taper_cpw_inset + g.omega_taper_length)

right_taper_start_x10(g) ==
    10 * ((0 + g.aperture_radius) + g.omega_taper_cpw_inset - g.omega_taper_length)

\* if left_wire_end_x > left_wire_start_x
left_wire_needed(g) ==
    feed1_bottom_x10(g) + 5 * g.omega_trace_width > left_taper_end_x10(g)

\* if right_wire_end_x > right_wire_start_x
right_wire_needed(g) ==
    right_taper_start_x10(g) > feed6_top_x10(g) - 5 * g.omega_trace_width

ApertureRadii == {250, 280, 300, 350}

TraceGaps == {15, 25}

\* _dc_pad_geometry divides by (n - 1) / 2.0, so a single pad per side raises;
\* the region routines are run on configurations with at least two pads
GoldConfigs ==
    [omega_center_radius : {50}, omega_trace_width : {8}, omega_spacing : {50},
     omega_trace_gap : TraceGaps, omega_taper_length : {250},
     omega_taper_cpw_inset : {150}, aperture_radius : ApertureRadii,
     dc_pad_count : 2..(MaxPads + 1)]

\* MaskConfig.omega_configs: omega0, omega1, omega3 and omega4 of the list
\* (omega2 has trace_width 12.5, which is not a whole number of µm); the
\* fields create_omega does not read keep the values of the gold layer
OmegaConfigs ==
    {[omega_center_radius |-> o[1], omega_trace_width |-> o[2], omega_spacing |-> 50,
      omega_trace_gap |-> o[3], omega_taper_length |-> 250,
      omega_taper_cpw_inset |-> 150, aperture_radius |-> 300, dc_pad_count |-> 2] :
        o \in {<<30, 10, 10>>, <<50, 10, 10>>, <<100, 15, 15>>, <<125, 20, 15>>}}

\* the parameter sets a routine is run on
RoutineConfigs(routine) ==
    IF routine = "create_omega" THEN GoldConfigs \cup OmegaConfigs ELSE GoldConfigs

RingRoutines == {"create_omega", "chip6x6", "chip5x5"}

Routines ==
    RingRoutines \cup {"ground5x5", "ground6x6", "create_edge_fill", "create_gold_ring",
                       "clip_to_radius"}

RingStart(routine, g) ==
    [routine |-> routine, gold |-> g,
     pc |-> IF routine \in RingRoutines THEN "ring" ELSE "start", i |-> 1, k |-> 1,
     ring_region |-> EmptyRegion, omega_region |-> EmptyRegion,
     ground_region |-> EmptyRegion,
     gap_boxes |-> <<>>, cell_shapes |-> <<>>]

InitRing ==
    /\ \E routine \in Routines : \E g \in RoutineConfigs(routine) :
           ring = RingStart(routine, g)
    /\ BuildStart(DefaultConfig)
    /\ run = 1
    /\ clock = 0
    /\ first = NoFirst
    /\ probe = NoProbe
    /\ probe_out = NoProbeOut

\* the position after one pass of the ring loop
next_ring(r) ==
    IF r.i < Len(positions) THEN [r EXCEPT !.i = r.i + 1, !.pc = "ring"]
    ELSE [r EXCEPT !.i = 1, !.pc = "pieces"]

\* the position after one shape of a list of shapes has been inserted
next_piece(r, list, done) ==
    IF r.k < Len(list) THEN [r EXCEPT !.k = r.k + 1]
    ELSE [r EXCEPT !.k = 1, !.pc = done]

(* MaskDesigner.create_omega *)
create_omega_ring ==
    /\ ring.routine = "create_omega" /\ ring.pc = "ring"
    /\ ring' = [ring EXCEPT !.ring_region = annulus(ring.i), !.pc = "gap"]
    /\ UNCHANGED <<build_vars, probe_vars>>

create_omega_gap ==
    /\ ring.routine = "create_omega" /\ ring.pc = "gap"
    /\ ring' = [ring EXCEPT !.ring_region = region_minus(ring.ring_region, gap_box(ring.gold, ring.i)),
                            !.pc = "insert"]
    /\ UNCHANGED <<build_vars, probe_vars>>

create_omega_insert_ring ==
    /\ ring.routine = "create_omega" /\ ring.pc = "insert"
    /\ ring' = next_ring([ring EXCEPT !.cell_shapes = Append(ring.cell_shapes, ring.ring_region)])
    /\ UNCHANGED <<build_vars, probe_vars>>

create_omega_insert_piece ==
    /\ ring.routine = "create_omega" /\ ring.pc = "pieces"
    /\ ring' = next_piece(
                   [ring EXCEPT !.cell_shapes =
                        Append(ring.cell_shapes,
                               region_plus(EmptyRegion, {piece(create_omega_pieces[ring.k])}))],
                   create_omega_pieces, "done")
    /\ UNCHANGED <<build_vars, probe_vars>>

(* 6x6 ChipDesigner.create_omega_resonators *)
chip6x6_ring ==
    /\ ring.routine = "chip6x6" /\ ring.pc = "ring"
    /\ ring' = [ring EXCEPT !.ring_region = annulus(ring.i), !.pc = "gap"]
    /\ UNCHANGED <<build_vars, probe_vars>>

chip6x6_gap ==
    /\ ring.routine = "chip6x6" /\ ring.pc = "gap"
    /\ ring' = [ring EXCEPT !.ring_region = region_minus(ring.ring_region, gap_box(ring.gold, ring.i)),
                            !.pc = "insert"]
    /\ UNCHANGED <<build_vars, probe_vars>>

chip6x6_insert_ring ==
    /\ ring.routine = "chip6x6" /\ ring.pc = "insert"
    /\ ring' = next_ring([ring EXCEPT !.cell_shapes = Append(ring.cell_shapes, ring.ring_region)])
    /\ UNCHANGED <<build_vars, probe_vars>>

chip6x6_insert_piece ==
    /\ ring.routine = "chip6x6" /\ ring.pc = "pieces"
    /\ ring' = next_piece(
                   [ring EXCEPT !.cell_shapes =
                        Append(ring.cell_shapes,
                               region_plus(EmptyRegion, {piece(chip6x6_pieces[ring.k])}))],
                   chip6x6_pieces, "done")
    /\ UNCHANGED <<build_vars, probe_vars>>

(* 5x5 ChipDesigner.create_omega_resonators *)
chip5x5_ring ==
    /\ ring.routine = "chip5x5" /\ ring.pc = "ring"
    /\ ring' = next_ring(
                   [ring EXCEPT !.omega_region = region_plus(ring.omega_region, annulus(ring.i).pieces),
                                !.gap_boxes = Append(ring.gap_boxes, gap_box(ring.gold, ring.i))])
    /\ UNCHANGED <<build_vars, probe_vars>>

chip5x5_insert_piece ==
    /\ ring.routine = "chip5x5" /\ ring.pc = "pieces"
    /\ ring' = next_piece(
                   [ring EXCEPT !.omega_region =
                        region_plus(ring.omega_region, {piece(chip5x5_pieces[ring.k])})],
                   chip5x5_pieces, "left_wire")
    /\ UNCHANGED <<build_vars, probe_vars>>

chip5x5_left_wire ==
    /\ ring.routine = "chip5x5" /\ ring.pc = "left_wire"
    /\ ring' = [ring EXCEPT !.omega_region =
                                IF left_wire_needed(ring.gold)
                                THEN region_plus(ring.omega_region, {piece("left_wire")})
                                ELSE ring.omega_region,
                            !.pc = "right_wire"]
    /\ UNCHANGED <<build_vars, probe_vars>>

chip5x5_right_wire ==
    /\ ring.routine = "chip5x5" /\ ring.pc = "right_wire"
    /\ ring' = [ring EXCEPT !.omega_region =
                                IF right_wire_needed(ring.gold)
                                THEN region_plus(ring.omega_region, {piece("right_wire")})
                                ELSE ring.omega_region,
                            !.pc = "merge"]
    /\ UNCHANGED <<build_vars, probe_vars>>

chip5x5_merge ==
    /\ ring.routine = "chip5x5" /\ ring.pc = "merge"
    /\ ring' = [ring EXCEPT !.omega_region = region_merge(ring.omega_region), !.pc = "gaps"]
    /\ UNCHANGED <<build_vars, probe_vars>>

chip5x5_subtract_gap ==
    /\ ring.routine = "chip5x5" /\ ring.pc = "gaps"
    /\ ring' = next_piece(
                   [ring EXCEPT !.omega_region =
                        region_minus(ring.omega_region, ring.gap_boxes[ring.k])],
                   ring.gap_boxes, "commit")
    /\ UNCHANGED <<build_vars, probe_vars>>

chip5x5_commit ==
    /\ ring.routine = "chip5x5" /\ ring.pc = "commit"
    /\ ring' = [ring EXCEPT !.cell_shapes = Append(ring.cell_shapes, ring.omega_region),
                            !.pc = "done"]
    /\ UNCHANGED <<build_vars, probe_vars>>

(* Ground plane, edge fill, gold ring and clipped layers: regions composed by
   boolean operations and then inserted into a layer *)

cut(name, n) == [kind |-> name, n |-> n, ring_type |-> "none"]

\* the three clearances subtracted for each pad of _dc_pad_geometry(sign)
pad_cut_names == <<"pad_taper_clearance", "pad_angled_clearance", "pad_vertical_clearance">>

pad_cuts(sign, n) ==
    [j \in 1..(3 * n) |-> cut(pad_cut_names[((j - 1) % 3) + 1], sign * (((j - 1) \div 3) + 1))]

\* one pass of `for sign in [+1, -1]` over the DC cutouts
dc_cuts(sign, n) ==
    <<cut("dc_cutout_box", sign), cut("dc_cutout_taper", sign), cut("dc_channel", sign),
      cut("dc_extension", sign)>> \o pad_cuts(sign, n)

\* `for sx in [+1, -1]: for sy in [+1, -1]`
corner_cuts(name) == <<cut(name, 1), cut(name, 2), cut(name, 3), cut(name, 4)>>

\* everything the 5x5 create_ground_plane subtracts, in order
ground5x5_cuts(n) ==
    <<cut("left_pad_box", 0), cut("right_pad_box", 0), cut("left_taper_cutout_top", 0),
      cut("left_taper_cutout_bot", 0), cut("left_cpw_box", 0), cut("right_cpw_box", 0),
      cut("right_taper_cutout_top", 0), cut("right_taper_cutout_bot", 0)>>
    \o dc_cuts(1, n) \o dc_cuts(-1, n)
    \o <<cut("aperture_polygon", 0)>>
    \o corner_cuts("alignment_mark") \o corner_cuts("small_alignment_mark")
    \o <<cut("prt", 1), cut("prt", -1), cut("vernier", 0)>>

\* everything the 6x6 create_ground_plane subtracts, in order
ground6x6_cuts ==
    <<cut("left_pad_box", 0), cut("right_pad_box", 0), cut("left_gap_top", 0),
      cut("left_gap_bot", 0), cut("left_cpw_box", 0), cut("right_cpw_box", 0),
      cut("right_gap_top", 0), cut("right_gap_bot", 0), cut("aperture_polygon", 0)>>

\* pya.Region(shape)
region_of(name) == region_plus(EmptyRegion, {piece(name)})

(* 5x5 ChipDesigner.create_ground_plane *)
ground5x5_start ==
    /\ ring.routine = "ground5x5" /\ ring.pc = "start"
    /\ ring' = [ring EXCEPT !.ground_region = region_of("die_box_inset"), !.pc = "cuts"]
    /\ UNCHANGED <<build_vars, probe_vars>>

ground5x5_subtract ==
    /\ ring.routine = "ground5x5" /\ ring.pc = "cuts"
    /\ ring' = next_piece(
                   [ring EXCEPT !.ground_region =
                        region_minus(ring.ground_region,
                                     ground5x5_cuts(ring.gold.dc_pad_count)[ring.k])],
                   ground5x5_cuts(ring.gold.dc_pad_count), "merge")
    /\ UNCHANGED <<build_vars, probe_vars>>

ground5x5_merge ==
    /\ ring.routine = "ground5x5" /\ ring.pc = "merge"
    /\ ring' = [ring EXCEPT !.ground_region = region_merge(ring.ground_region), !.pc = "insert"]
    /\ UNCHANGED <<build_vars, probe_vars>>

ground5x5_insert ==
    /\ ring.routine = "ground5x5" /\ ring.pc = "insert"
    /\ ring' = [ring EXCEPT !.cell_shapes = Append(ring.cell_shapes, ring.ground_region),
                            !.pc = "done"]
    /\ UNCHANGED <<build_vars, probe_vars>>

(* 6x6 ChipDesigner.create_ground_plane *)
ground6x6_start ==
    /\ ring.routine = "ground6x6" /\ ring.pc = "start"
    /\ ring' = [ring EXCEPT !.ground_region = region_of("die_box_inset"), !.pc = "cuts"]
    /\ UNCHANGED <<build_vars, probe_vars>>

ground6x6_subtract ==
    /\ ring.routine = "ground6x6" /\ ring.pc = "cuts"
    /\ ring' = next_piece(
                   [ring EXCEPT !.ground_region =
                        region_minus(ring.ground_region, ground6x6_cuts[ring.k])],
                   ground6x6_cuts, "merge")
    /\ UNCHANGED <<build_vars, probe_vars>>

ground6x6_merge ==
    /\ ring.routine = "ground6x6" /\ ring.pc = "merge"
    /\ ring' = [ring EXCEPT !.ground_region = region_merge(ring.ground_region), !.pc = "insert"]
    /\ UNCHANGED <<build_vars, probe_vars>>

ground6x6_insert ==
    /\ ring.routine = "ground6x6" /\ ring.pc = "insert"
    /\ ring' = [ring EXCEPT !.cell_shapes = Append(ring.cell_shapes, ring.ground_region),
                            !.pc = "done"]
    /\ UNCHANGED <<build_vars, probe_vars>>

(* MaskDesigner.create_edge_fill: the region edge_fill_region is held in ring_region *)
\* create_wafer_region(): the wafer polygon minus the flat box
create_wafer_region == region_minus(region_of("wafer_polygon"), cut("flat_box", 0))

edge_fill_region_build ==
    /\ ring.routine = "create_edge_fill" /\ ring.pc = "start"
    /\ ring' = [ring EXCEPT !.ring_region = region_minus(create_wafer_region,
                                                         cut("usable_region", 0)),
                            !.pc = "insert"]
    /\ UNCHANGED <<build_vars, probe_vars>>

\* inserted into the metal layer and into the DC layer
edge_fill_region_insert ==
    /\ ring.routine = "create_edge_fill" /\ ring.pc = "insert"
    /\ ring' = [ring EXCEPT !.cell_shapes = ring.cell_shapes \o <<ring.ring_region, ring.ring_region>>,
                            !.pc = "done"]
    /\ UNCHANGED <<build_vars, probe_vars>>

(* V4 MaskDesigner._make_wafer_region, create_gold_ring, clip_to_radius *)
\* region & other
region_and(region, other) ==
    [region EXCEPT !.merged = TRUE, !.cuts = region.cuts \cup {other},
                   !.booleans = region.booleans + 1, !.merge_after = FALSE]

\* circle_region & Region(clip_box)
make_wafer_region(name) == region_and(region_of(name), cut("outside_clip_box", 0))

gold_ring_build ==
    /\ ring.routine = "create_gold_ring" /\ ring.pc = "start"
    /\ ring' = [ring EXCEPT !.ring_region = region_minus(make_wafer_region("outer_shape"),
                                                         cut("inner_shape", 0)),
                            !.pc = "insert"]
    /\ UNCHANGED <<build_vars, probe_vars>>

gold_ring_insert ==
    /\ ring.routine = "create_gold_ring" /\ ring.pc = "insert"
    /\ ring' = [ring EXCEPT !.cell_shapes = Append(ring.cell_shapes, ring.ring_region),
                            !.pc = "done"]
    /\ UNCHANGED <<build_vars, probe_vars>>

layers_to_clip == <<"gold_layer", "platinum_layer">>

\* clipped_regions[layer_idx] = layer_region & clip_region, the list held in gap_boxes
clip_to_radius_clip ==
    /\ ring.routine = "clip_to_radius" /\ ring.pc = "start"
    /\ ring' = [ring EXCEPT !.gap_boxes =
                                [j \in 1..Len(layers_to_clip) |->
                                    region_and(region_of(layers_to_clip[j]), cut("outside_clip_region", 0))],
                            !.pc = "insert"]
    /\ UNCHANGED <<build_vars, probe_vars>>

\* cell.clear() and the clipped regions inserted
clip_to_radius_insert ==
    /\ ring.routine = "clip_to_radius" /\ ring.pc = "insert"
    /\ ring' = [ring EXCEPT !.cell_shapes = ring.gap_boxes, !.pc = "done"]
    /\ UNCHANGED <<build_vars, probe_vars>>

NextRing ==
    \/ create_omega_ring
    \/ create_omega_gap
    \/ create_omega_insert_ring
    \/ create_omega_insert_piece
    \/ chip6x6_ring
    \/ chip6x6_gap
    \/ chip6x6_insert_ring
    \/ chip6x6_insert_piece
    \/ chip5x5_ring
    \/ chip5x5_insert_piece
    \/ chip5x5_left_wire
    \/ chip5x5_right_wire
    \/ chip5x5_merge
    \/ chip5x5_subtract_gap
    \/ chip5x5_commit
    \/ ground5x5_start
    \/ ground5x5_subtract
    \/ ground5x5_merge
    \/ ground5x5_insert
    \/ ground6x6_start
    \/ ground6x6_subtract
    \/ ground6x6_merge
    \/ ground6x6_insert
    \/ edge_fill_region_build
    \/ edge_fill_region_insert
    \/ gold_ring_build
    \/ gold_ring_insert
    \/ clip_to_radius_clip
    \/ clip_to_radius_insert

SpecRing == InitRing /\ [][NextRing]_vars



-----------------------------------------------------------------------------
(* Vocabulary of the properties *)

Range(q) == { q[i] : i \in 1..Len(q) }

\* the placement list of the current build has been returned
positions_returned ==
    pc \notin {"create_mask", "create_unit_cell", "calculate_chip_positions"}

scanned_rows == range_lo(max_units(cfg, unit_dims[2]))..range_hi(max_units(cfg, unit_dims[2]))

scanned_cols == range_lo(max_units(cfg, unit_dims[1]))..range_hi(max_units(cfg, unit_dims[1]))

slots == 1..Len(chip_variant_cells)

die_at(unit_row, unit_col, v) ==
    candidate(unit_dims[1], unit_dims[2], chip_variant_cells, unit_row, unit_col, v)

triple(d) == <<d.chip_x, d.chip_y, d.variant_idx>>

\* the die with bottom-left corner (x, y) and extent w x h lies in the closed disc of radius R
in_disc(x, y, w, h, R) ==
    \A cx \in {x, x + w}, cy \in {y, y + h} : cx * cx + cy * cy <= R * R

\* the line y = flat_y + 2250 um of a wafer configuration
exclusion_line(c) == -(c.wafer_diameter \div 2) + c.flat_depth + flat_exclusion_zone

\* the loop indices a placement was produced at, recovered from its coordinates
key_of(p) ==
    LET slot == chip_variant_cells[p[3] + 1]
    IN  <<(p[2] - slot.local_y + unit_dims[2] \div 2) \div unit_dims[2],
          (p[1] - slot.local_x + unit_dims[1] \div 2) \div unit_dims[1],
          p[3]>>

lex_less(a, b) ==
    \/ a[1] < b[1]
    \/ a[1] = b[1] /\ a[2] < b[2]
    \/ a[1] = b[1] /\ a[2] = b[2] /\ a[3] < b[3]

\* the two predicates of the code, on one die
die_passes(d) ==
    /\ chip_fits_in_wafer(d.chip_x, d.chip_y, base_chip_config(cfg).chip_width,
                          base_chip_config(cfg).chip_height, usable_radius_of(cfg))
    /\ ~chip_too_close_to_flat(cfg, d.chip_x, d.chip_y, base_chip_config(cfg).chip_width,
                               base_chip_config(cfg).chip_height)

-----------------------------------------------------------------------------
(* C1 *)

\* C1: every candidate die (unit-cell offset, variant slot) of the scan is in
\* the placement list if and only if chip_fits_in_wafer is true and
\* chip_too_close_to_flat is false for that die alone, whatever the other dies
\* of its unit cell do; the list holds nothing else and no die twice.
C1_PlacedIffDieFits ==
    (pc = "place_chips") =>
        LET placed == Range(valid_positions)
        IN  /\ \A unit_row \in scanned_rows, unit_col \in scanned_cols, v \in slots :
                  (triple(die_at(unit_row, unit_col, v)) \in placed)
                      <=> die_passes(die_at(unit_row, unit_col, v))
            /\ placed \subseteq
                  { triple(die_at(unit_row, unit_col, v)) :
                        unit_row \in scanned_rows, unit_col \in scanned_cols, v \in slots }
            /\ Cardinality(placed) = Len(valid_positions)

\* a unit cell straddling the wafer edge has contributed some of its dies and not all
C1_Witness ==
    /\ pc = "place_chips"
    /\ LET placed == Range(valid_positions)
       IN  \E unit_row \in scanned_rows, unit_col \in scanned_cols :
              /\ \E v \in slots : triple(die_at(unit_row, unit_col, v)) \in placed
              /\ \E v \in slots : triple(die_at(unit_row, unit_col, v)) \notin placed

-----------------------------------------------------------------------------
(* C2 *)

probe_corner_sq(dx, dy) ==
    (probe.chip_x + dx) * (probe.chip_x + dx) + (probe.chip_y + dy) * (probe.chip_y + dy)

\* C2: chip_fits_in_wafer(x, y, w, h, R) is true if and only if each of the
\* four corners of the die is at distance <= R from (0, 0); a corner at
\* distance exactly R is accepted and a corner at distance R + 1 is not.
C2_FitsIffFourCornersInside ==
    probe_out.fits_called =>
        /\ probe_out.fits <=> in_disc(probe.chip_x, probe.chip_y, probe.chip_width,
                                      probe.chip_height, probe.usable_radius)
        /\ (\E dx \in {0, probe.chip_width}, dy \in {0, probe.chip_height} :
                probe_corner_sq(dx, dy) = (probe.usable_radius + 1) * (probe.usable_radius + 1))
              => ~probe_out.fits

\* a die is accepted whose top-right corner is at distance exactly R, off the axes
C2_Witness ==
    /\ probe_out.fits_called
    /\ probe_out.fits
    /\ probe.chip_x + probe.chip_width > 0
    /\ probe.chip_y + probe.chip_height > 0
    /\ probe_corner_sq(probe.chip_width, probe.chip_height)
          = probe.usable_radius * probe.usable_radius

-----------------------------------------------------------------------------
(* C3 *)

-----------------------------------------------------------------------------
(* C4 *)

wide_rows == (range_lo(max_units(cfg, unit_dims[2])) - ScanMargin)
                ..(range_hi(max_units(cfg, unit_dims[2])) + ScanMargin)

wide_cols == (range_lo(max_units(cfg, unit_dims[1])) - ScanMargin)
                ..(range_hi(max_units(cfg, unit_dims[1])) + ScanMargin)

\* C4: every die of the unit-cell lattice that passes both fit predicates has
\* its unit-cell offset inside the scanned range; scanning a wider range adds
\* no placement.
C4_ScanExhaustive ==
    (pc = "place_chips") =>
        LET placed == Range(valid_positions)
        IN  /\ \A unit_row \in wide_rows, unit_col \in wide_cols, v \in slots :
                  die_passes(die_at(unit_row, unit_col, v))
                      => /\ unit_row \in scanned_rows
                         /\ unit_col \in scanned_cols
                         /\ triple(die_at(unit_row, unit_col, v)) \in placed
            /\ \A p \in placed :
                  /\ die_passes([chip_x |-> p[1], chip_y |-> p[2]])
                  /\ key_of(p)[1] \in wide_rows /\ key_of(p)[2] \in wide_cols
                  /\ triple(die_at(key_of(p)[1], key_of(p)[2], p[3] + 1)) = p

\* max_units_x is even, max_units_y is odd, and dies are placed in unit
\* columns and unit rows on both sides of the wafer centre
C4_Witness ==
    /\ pc = "place_chips"
    /\ max_units(cfg, unit_dims[1]) % 2 = 0
    /\ max_units(cfg, unit_dims[2]) % 2 = 1
    /\ \E p, q \in Range(valid_positions) :
          /\ key_of(p)[1] < 0 /\ key_of(p)[2] < 0
          /\ key_of(q)[1] > 0 /\ key_of(q)[2] > 0

-----------------------------------------------------------------------------
(* C5 *)

\* all variants have the die extent of chip_configs[0]
same_extent ==
    \A v \in slots :
        /\ chip_variant_cells[v].chip_config.chip_width = base_chip_config(cfg).chip_width
        /\ chip_variant_cells[v].chip_config.chip_height = base_chip_config(cfg).chip_height

\* the rectangle the die of a placement covers: the extent of its own variant
die_rect(p) ==
    [x0 |-> p[1], y0 |-> p[2],
     x1 |-> p[1] + chip_variant_cells[p[3] + 1].chip_config.chip_width,
     y1 |-> p[2] + chip_variant_cells[p[3] + 1].chip_config.chip_height]

interiors_overlap(a, b) ==
    /\ a.x0 < b.x1 /\ b.x0 < a.x1
    /\ a.y0 < b.y1 /\ b.y0 < a.y1

\* C5: when all variants share the die extent of chip_configs[0] (and
\* chip_spacing >= 0), no two dies of the placement list overlap in their
\* interiors and no origin occurs twice.
C5_NoOverlap ==
    (pc = "place_chips" /\ same_extent /\ cfg.chip_spacing >= 0) =>
        \A i, j \in 1..Len(valid_positions) :
            i < j =>
                /\ ~interiors_overlap(die_rect(valid_positions[i]), die_rect(valid_positions[j]))
                /\ <<valid_positions[i][1], valid_positions[i][2]>>
                      # <<valid_positions[j][1], valid_positions[j][2]>>

\* two placed dies of equal extent share an edge
C5_Witness ==
    /\ pc = "place_chips" /\ same_extent
    /\ \E i, j \in 1..Len(valid_positions) :
          /\ die_rect(valid_positions[i]).x1 = die_rect(valid_positions[j]).x0
          /\ valid_positions[i][2] = valid_positions[j][2]

-----------------------------------------------------------------------------
(* C6 *)

\* C6: the placement list is in the order unit rows ascending, then unit
\* columns ascending, then variant slot ascending, and a second run on the
\* same configuration returns the identical sequence.
C6_StableOrder ==
    positions_returned =>
        /\ \A i \in 1..(Len(valid_positions) - 1) :
              lex_less(key_of(valid_positions[i]), key_of(valid_positions[i + 1]))
        /\ run = 2 => valid_positions = first.positions

\* the second run has returned a list that spans two unit rows, two unit columns and two slots
C6_Witness ==
    /\ run = 2 /\ positions_returned
    /\ \E i, j, k \in 1..Len(valid_positions) :
          /\ key_of(valid_positions[i])[1] # key_of(valid_positions[j])[1]
          /\ key_of(valid_positions[i])[2] # key_of(valid_positions[k])[2]
          /\ valid_positions[i][3] # valid_positions[j][3]

-----------------------------------------------------------------------------
(* C7 *)

\* C7: two complete builds of the mask from identical configuration commit
\* identical polygons to every layer, whenever each build is run.
C7_BuildsIdentical ==
    (run = 2 /\ pc = "built") => /\ shapes = first.shapes
                                 /\ insts = first.insts

-----------------------------------------------------------------------------
(* C8 *)

\* C8: the placement step leaves the layout, the configuration and the
\* chip_variant_cells list unchanged, and called again on the same arguments
\* it returns the same list.
C8_PlacementKeepsNoState ==
    [][ (pc = "calculate_chip_positions") =>
            /\ cfg' = cfg
            /\ chip_variant_cells' = chip_variant_cells
            /\ unit_dims' = unit_dims
            /\ cells' = cells /\ insts' = insts /\ shapes' = shapes
            /\ run = 2 => valid_positions' = first.positions ]_vars

\* the second call has returned a non-empty list
C8_Witness ==
    /\ run = 2 /\ pc = "place_chips"
    /\ valid_positions # <<>>
    /\ valid_positions = first.positions

-----------------------------------------------------------------------------
(* C9 *)

\* C9: when no die passes the fit predicates the placement list is empty and
\* the wafer build that consumes it completes without raising an error.
C9_EmptyPlacementCompletes ==
    (positions_returned /\ valid_positions = <<>>) => pc # "ValueError"

-----------------------------------------------------------------------------
(* C10 *)

\* every region of the routine: the two working regions and what the cell holds
ring_regions ==
    {ring.ring_region, ring.omega_region} \cup Range(ring.cell_shapes)

\* all additive geometry of the routine under way
additive_geometry ==
    {ring_piece(i) : i \in 1..Len(positions)}
    \cup (IF ring.routine = "create_omega" THEN {piece(n) : n \in Range(create_omega_pieces)}
          ELSE IF ring.routine = "chip6x6" THEN {piece(n) : n \in Range(chip6x6_pieces)}
          ELSE {piece(n) : n \in Range(chip5x5_pieces)}
               \cup (IF left_wire_needed(ring.gold) THEN {piece("left_wire")} ELSE {})
               \cup (IF right_wire_needed(ring.gold) THEN {piece("right_wire")} ELSE {}))

\* C10: in every ring-synthesis routine the gap boxes are subtracted last: a
\* region from which a gap box has been subtracted is merged and already
\* holds all the additive geometry of the routine (the four rings, the
\* connectors, feeds, tapers and wires), so nothing is added after a
\* subtraction.
C10_GapSubtractionLast ==
    (ring.routine \in RingRoutines) =>
        \A region \in ring_regions :
            region.cuts # {} =>
                /\ region.merged
                /\ region.pieces = additive_geometry

-----------------------------------------------------------------------------
(* C11 *)

\* C11: every region that results from boolean operations has merge() called
\* on it after its last boolean operation and before it is inserted into a
\* layer of a cell.
C11_MergedBeforeInsert ==
    \A region \in Range(ring.cell_shapes) :
        region.booleans > 0 => region.merge_after

-----------------------------------------------------------------------------
(* C12 *)

GroundRoutines == {"ground5x5", "ground6x6"}

\* the clearances the ground-plane routine under way has to subtract
ground_cuts_expected ==
    IF ring.routine = "ground5x5" THEN Range(ground5x5_cuts(ring.gold.dc_pad_count))
    ELSE Range(ground6x6_cuts)

\* C12: the ground plane starts from the die rectangle inset by the dicing
\* margin and only has clearances subtracted from it; it is merged exactly
\* once, after the last subtraction, and inserted into the layer exactly
\* once, merged.
C12_GroundMergedOnceThenInserted ==
    (ring.routine \in GroundRoutines) =>
        LET g == ring.ground_region
            inserted == ring.cell_shapes
        IN  /\ g.pieces \subseteq {piece("die_box_inset")}
            /\ (ring.pc # "start") => g.pieces = {piece("die_box_inset")}
            /\ g.merges <= 1
            /\ (g.merges = 1) => g.merge_after
            /\ Len(inserted) <= 1
            /\ \A r \in Range(inserted) :
                  /\ r.merges = 1 /\ r.merge_after
                  /\ r.pieces = {piece("die_box_inset")}
                  /\ r.cuts = ground_cuts_expected
            /\ (ring.pc = "done") => Len(inserted) = 1

\* the 5x5 ground plane with more than one DC pad per side has been inserted
\* after all its subtractions and one merge
C12_Witness ==
    /\ ring.routine = "ground5x5"
    /\ ring.pc = "done"
    /\ ring.gold.dc_pad_count > 1
    /\ Len(ring.cell_shapes) = 1
    /\ ring.cell_shapes[1].booleans = Len(ground5x5_cuts(ring.gold.dc_pad_count))
    /\ ring.cell_shapes[1].merges = 1

-----------------------------------------------------------------------------
(* C13 *)

\* the phase a position of the build belongs to: guides, synthesis of the
\* die variants, placement, overlays, labels, export
phase_rank(p) ==
    CASE p = "create_mask" -> 0
      [] p = "create_unit_cell" -> 1
      [] p = "calculate_chip_positions" -> 2
      [] p = "place_chips" -> 3
      [] p \in {"edge_fill", "contact_bars", "studded_ring", "dicing_traces", "corner_marks",
                "ValueError"} -> 4
      [] p = "mask_labels" -> 5
      [] p = "built" -> 6
      [] p = "flatten" -> 7
      [] p = "exported" -> 8

overlay_kinds_built == { sh.kind : sh \in shapes } \ { sh.kind : sh \in guide_shapes(cfg) }

\* C13: within one build the phases run in strict order and none is entered
\* again: the die variants are all synthesized before the placement list is
\* computed, the list is complete before an overlay builder runs, and a file
\* is written only after the last overlay builder and the labels.
C13_PhasesInOrder ==
    [][ (run' = run) =>
          /\ phase_rank(pc') >= phase_rank(pc)
          /\ (pc = "calculate_chip_positions" /\ pc' # pc) =>
                /\ Len(chip_variant_cells) = cfg.chip_count_x * cfg.chip_count_y
                /\ chip_variant_cells' = chip_variant_cells
                /\ overlay_kinds_built = {}
          /\ (phase_rank(pc) \in {3, 4} /\ pc' # pc) =>
                /\ valid_positions = calculate_chip_positions_from_unit_grid(
                                         cfg, unit_dims[1], unit_dims[2], chip_variant_cells)
                /\ valid_positions' = valid_positions
                /\ chip_variant_cells' = chip_variant_cells
          /\ (files' # files) =>
                /\ phase_rank(pc) >= 6
                /\ Len(insts) = Len(valid_positions) \/ pc = "flatten"
                /\ corner_mark_shapes \subseteq shapes
                /\ \E date_str \in 0..MaxDate : mask_label_shapes(date_str) \subseteq shapes
      ]_vars

\* a build with dies placed and overlays built has written both files
C13_Witness ==
    /\ pc = "exported"
    /\ Len(files) = 2
    /\ valid_positions # <<>>
    /\ cfg.edge_fill_enabled
    /\ Len(files[1].insts) = Len(valid_positions)

-----------------------------------------------------------------------------
(* C14 *)

\* the configuration a variant slot was synthesized from
config_of_slot(k) ==
    IF k <= Len(cfg.chip_configs) THEN cfg.chip_configs[k] ELSE base_chip_config(cfg)

\* C14: from the synthesis of the die variants on, no step of the build writes
\* a configuration: the configuration stays what it was after construction,
\* and every synthesized variant still carries the configuration of its slot.
C14_ConfigNotMutatedAfterSynthesis ==
    [][ (run' = run /\ phase_rank(pc) >= 1) =>
          /\ cfg' = cfg
          /\ \A k \in 1..Len(chip_variant_cells') :
                chip_variant_cells'[k].chip_config = config_of_slot(k)
      ]_vars

\* a build whose variants differ in their configuration has run to the export
C14_Witness ==
    /\ pc = "exported"
    /\ Len(chip_variant_cells) > 1
    /\ \E j, k \in 1..Len(chip_variant_cells) :
          chip_variant_cells[j].chip_config # chip_variant_cells[k].chip_config
    /\ valid_positions # <<>>

-----------------------------------------------------------------------------
(* C15 *)

variant_slots == cfg.chip_count_x * cfg.chip_count_y

\* the chips are in the mask cell: between place_chips and the flattening
chips_placed == phase_rank(pc) >= 4 /\ pc \notin {"flatten", "exported"}

\* C15: create_unit_cell builds one chip cell and one wrapper cell per variant
\* slot; every placement is an instance of the wrapper cell of its own
\* variant index, which is a valid index of the variant list, and the cells
\* of the layout are the same however many chips are placed.
C15_VariantCellsBuiltOnceAndReferenced ==
    /\ (phase_rank(pc) >= 2) =>
          /\ Len(chip_variant_cells) = variant_slots
          /\ \A j, k \in 1..Len(chip_variant_cells) :
                (chip_variant_cells[j].cell = chip_variant_cells[k].cell) => j = k
          /\ cells = {<<"mask_5inch", 0>>, <<"unit_cell_2x3", 0>>}
                      \cup { <<"chip_variant", chip_variant_cells[k].cell>> :
                                k \in 1..Len(chip_variant_cells) }
                      \cup { <<"chip_wrapper", chip_variant_cells[k].cell>> :
                                k \in 1..Len(chip_variant_cells) }
          /\ Cardinality(cells) = 2 + 2 * variant_slots
    /\ chips_placed =>
          /\ Len(insts) = Len(valid_positions)
          /\ \A i \in 1..Len(insts) :
                /\ valid_positions[i][3] \in 0..(Len(chip_variant_cells) - 1)
                /\ insts[i].cell = <<"chip_wrapper", valid_positions[i][3]>>
                /\ insts[i].cell \in cells
                /\ insts[i].x = valid_positions[i][1] /\ insts[i].y = valid_positions[i][2]

\* more chips are placed than the layout has cells, several of them of the
\* same variant and some of different variants
C15_Witness ==
    /\ chips_placed
    /\ Len(insts) > Cardinality(cells)
    /\ \E i, j \in 1..Len(insts) :
          /\ i # j /\ insts[i].cell = insts[j].cell
    /\ \E i, j \in 1..Len(insts) : insts[i].cell # insts[j].cell

-----------------------------------------------------------------------------
(* Construction of the configuration objects on arbitrary arguments *)

\* an optional keyword argument: <<>> when it is left out, <<v>> when it is v
given(arg) == arg # <<>>

value_or(arg, default) == IF given(arg) THEN arg[1] ELSE default

OptRadii == {<< >>, <<-50>>, <<0>>, <<15>>, <<50>>}

OptWidths == {<< >>, <<-10>>, <<0>>, <<8>>, <<10>>, <<120>>}

OptChipSides == {<< >>, <<-5000>>, <<0>>, <<5000>>}

OmegaClasses == {"OmegaConfig", "OmegaVariant", "GoldLayerConfig"}

\* the chip_configs argument of MaskDesigner: None, or a list of one or two
\* chip configurations of a die size the defaults do not have
OptChipLists ==
    {<< >>, <<(<<chip_config(120, 120)>>)>>,
     <<(<<chip_config(120, 120), chip_config(120, 120)>>)>>}

\* the omega_configs argument of MaskDesigner: None, or a list of one or two
\* entries, the second one None (a blank die)
OptOmegaLists ==
    {<< >>, <<(<<[is_none |-> FALSE, center_radius |-> 3]>>)>>,
     <<(<<[is_none |-> FALSE, center_radius |-> 3], omega_none>>)>>}

CtorProbes ==
    [class : OmegaClasses, center_radius : OptRadii, trace_width : OptWidths,
     chip_width : {<< >>}, chip_height : {<< >>}]
    \cup
    [class : {"ChipConfig"}, center_radius : {<< >>}, trace_width : {<< >>},
     chip_width : OptChipSides, chip_height : OptChipSides]
    \cup
    [class : {"MaskDesigner"}, chip_configs : OptChipLists, omega_configs : OptOmegaLists]

NoCtorOut == [constructed |-> FALSE, raised |-> "none", obj |-> [class |-> "none"]]

InitCfg ==
    /\ probe \in CtorProbes
    /\ probe_out = NoCtorOut
    /\ BuildStart(DefaultConfig)
    /\ run = 1
    /\ clock = 0
    /\ first = NoFirst
    /\ ring = NoRing

\* OmegaConfig.__init__: every argument that is given replaces the class attribute
OmegaConfig_init ==
    /\ probe.class = "OmegaConfig"
    /\ ~probe_out.constructed
    /\ probe_out' = [constructed |-> TRUE, raised |-> "none",
                     obj |-> [class |-> "OmegaConfig",
                              center_radius |-> value_or(probe.center_radius, 50),
                              trace_width |-> value_or(probe.trace_width, 10),
                              omega_spacing |-> 50,
                              omega_trace_gap |-> 15,
                              omega_taper_length |-> 100]]
    /\ UNCHANGED <<build_vars, probe, ring>>

\* OmegaVariant(name, center_radius, trace_width, aperture_radius = 200): the
\* generated __init__ stores its arguments; a required one left out is a TypeError
OmegaVariant_init ==
    /\ probe.class = "OmegaVariant"
    /\ ~probe_out.constructed
    /\ probe_out' =
          IF given(probe.center_radius) /\ given(probe.trace_width)
          THEN [constructed |-> TRUE, raised |-> "none",
                obj |-> [class |-> "OmegaVariant",
                         center_radius |-> probe.center_radius[1],
                         trace_width |-> probe.trace_width[1],
                         aperture_radius |-> 200,
                         trace_gap |-> 15]]
          ELSE [constructed |-> TRUE, raised |-> "TypeError", obj |-> [class |-> "none"]]
    /\ UNCHANGED <<build_vars, probe, ring>>

\* GoldLayerConfig(omega_center_radius = .., omega_trace_width = ..): the
\* generated __init__ stores its arguments or the field defaults
GoldLayerConfig_init ==
    /\ probe.class = "GoldLayerConfig"
    /\ ~probe_out.constructed
    /\ probe_out' = [constructed |-> TRUE, raised |-> "none",
                     obj |-> [class |-> "GoldLayerConfig",
                              cpw_signal_width |-> 100,
                              cpw_gap |-> 50,
                              aperture_radius |-> 300,
                              omega_center_radius |-> value_or(probe.center_radius, 50),
                              omega_trace_width |-> value_or(probe.trace_width, 8)]]
    /\ UNCHANGED <<build_vars, probe, ring>>

\* ChipConfig(chip_width = .., chip_height = ..)
ChipConfig_init ==
    /\ probe.class = "ChipConfig"
    /\ ~probe_out.constructed
    /\ probe_out' = [constructed |-> TRUE, raised |-> "none",
                     obj |-> [class |-> "ChipConfig",
                              chip_width |-> value_or(probe.chip_width, 5000),
                              chip_height |-> value_or(probe.chip_height, 5000),
                              dicing_margin |-> 150]]
    /\ UNCHANGED <<build_vars, probe, ring>>

\* MaskDesigner.__init__: `if chip_configs is None or omega_configs is None`
\* builds chip0..chip5 and omega0..omega5 and assigns them to both arguments;
\* the loop that follows sets only the dbu of each chip configuration
MaskDesigner_init ==
    /\ probe.class = "MaskDesigner"
    /\ ~probe_out.constructed
    /\ probe_out' =
           [constructed |-> TRUE, raised |-> "none",
            obj |-> IF ~given(probe.chip_configs) \/ ~given(probe.omega_configs)
                    THEN [class |-> "MaskDesigner",
                          chip_configs |-> DefaultConfig.chip_configs,
                          omega_configs |-> DefaultConfig.omega_configs,
                          chip_variant_cells |-> << >>]
                    ELSE [class |-> "MaskDesigner",
                          chip_configs |-> probe.chip_configs[1],
                          omega_configs |-> probe.omega_configs[1],
                          chip_variant_cells |-> << >>]]
    /\ UNCHANGED <<build_vars, probe, ring>>

\* create_unit_cell of the designer constructed, on MaskConfig()
MaskDesigner_create_unit_cell ==
    /\ probe.class = "MaskDesigner"
    /\ probe_out.constructed /\ probe_out.obj.chip_variant_cells = << >>
    /\ probe_out' =
           [probe_out EXCEPT !.obj.chip_variant_cells =
               unit_cell_variants([DefaultConfig EXCEPT
                                      !.chip_configs = probe_out.obj.chip_configs,
                                      !.omega_configs = probe_out.obj.omega_configs])]
    /\ UNCHANGED <<build_vars, probe, ring>>

NextCfg ==
    \/ MaskDesigner_init
    \/ MaskDesigner_create_unit_cell
    \/ OmegaConfig_init
    \/ OmegaVariant_init
    \/ GoldLayerConfig_init
    \/ ChipConfig_init

SpecCfg == InitCfg /\ [][NextCfg]_vars

-----------------------------------------------------------------------------
(* C16 *)

\* the dimensions of a constructed object are positive and consistent
dimensions_valid(obj) ==
    CASE obj.class \in {"OmegaConfig", "OmegaVariant"} ->
            /\ obj.center_radius > 0
            /\ obj.trace_width > 0
            /\ obj.trace_width <= 2 * obj.center_radius
      [] obj.class = "GoldLayerConfig" ->
            /\ obj.omega_center_radius > 0
            /\ obj.omega_trace_width > 0
            /\ obj.omega_trace_width <= 2 * obj.omega_center_radius
      [] obj.class = "ChipConfig" ->
            /\ obj.chip_width > 0
            /\ obj.chip_height > 0
            /\ 2 * obj.dicing_margin < obj.chip_width
            /\ 2 * obj.dicing_margin < obj.chip_height
      [] OTHER -> TRUE

\* C16: a configuration object whose dimensions are non-positive or
\* inconsistent (trace_width > 2 * center_radius) is never constructed: every
\* construction that ends without an error yields valid dimensions.
C16_InvalidDimensionsRejected ==
    (probe_out.constructed /\ probe_out.raised = "none") => dimensions_valid(probe_out.obj)

-----------------------------------------------------------------------------
(* ChipDesigner.create_chip of the 5x5 mm and the 6x6 mm die.  Lengths are in
   tenths of a micrometre (suffix _x10) before the conversion to database units. *)

CpwWidths == {100, 700}

ChipApertures == {200, 300, 500}

ChannelWidths == {50, 700}

PadCounts == {1, 2, 3}

\* ChipConfig + GoldLayerConfig of one die
ChipDesigns ==
    [design : {"5x5"}, chip_width : {5000}, chip_height : {5000}, edge_buffer : {200},
     rf_pad_width : {800}, rf_pad_height : {800}, cpw_taper_length : {100},
     cpw_signal_width : CpwWidths, cpw_gap : {50}, aperture_radius : ChipApertures,
     omega_count : {0, 4}, omega_trace_width : {8}, omega_taper_length : {250},
     omega_taper_cpw_inset : {150}, dc_cutout_aperture_width : ChannelWidths,
     dc_pad_count : PadCounts,
     dc_cutout_cy : {1400}, dc_cutout_width : {2100}, dc_cutout_height : {500},
     dc_cutout_taper_angle : {50},
     dc_pad_cy : {1400}, dc_pad_width : {250}, dc_pad_height : {250}, dc_pad_pitch : {350},
     dc_pad_stagger : {0}, dc_taper_height : {200}, dc_taper_angle : {25},
     dc_feedline_width : {10}, dc_feedline_pitch : {20}, dc_feedline_clearance : {15},
     dc_feedline_vertical_cy : {500}, dc_fanout_straight : {40}, dc_fanout_height : {60},
     dc_fanout_pitch : {36}]
    \cup
    [design : {"6x6"}, chip_width : {6000}, chip_height : {6000}, edge_buffer : {200},
     rf_pad_width : {600}, rf_pad_height : {800}, cpw_taper_length : {100},
     cpw_signal_width : CpwWidths, cpw_gap : {50}, aperture_radius : ChipApertures,
     omega_count : {4}, omega_trace_width : {8}, omega_taper_length : {100},
     omega_taper_cpw_inset : {0}, dc_cutout_aperture_width : {0},
     dc_pad_count : {8}]

\* int(round(um / self.chip.dbu)) with dbu = 0.001, of a length on the 0.1 um grid
um_to_dbu_x10(v) == v * 100

\* pya.Point(self._um_to_dbu(x), self._um_to_dbu(y))
Point(x, y) == <<um_to_dbu_x10(x), um_to_dbu_x10(y)>>

\* pya.Box(left, bottom, right, top) as its four corners
Box(left, bottom, right, top) ==
    <<Point(left, bottom), Point(left, top), Point(right, top), Point(right, bottom)>>

chip_cx_x10(g) == 5 * g.chip_width

chip_cy_x10(g) == 5 * g.chip_height

left_pad_x_x10(g) == 10 * g.edge_buffer

left_pad_right_x_x10(g) == left_pad_x_x10(g) + 10 * g.rf_pad_height

pad_left_taper_end_x10(g) == left_pad_right_x_x10(g) + 10 * g.cpw_taper_length

right_pad_x_x10(g) == 10 * g.chip_width - 10 * g.edge_buffer - 10 * g.rf_pad_height

pad_right_taper_start_x10(g) == right_pad_x_x10(g) - 10 * g.cpw_taper_length

\* mutant: the CPW of every die ends at the aperture edge
left_cpw_end_at_aperture_mut(g) == chip_cx_x10(g) - 10 * g.aperture_radius

\* create_cpw_signal_path: the 5x5 die ends the CPW inset from the aperture edge,
\* the 6x6 die at the aperture edge
left_cpw_end_x10(g) ==
    IF g.design = "5x5"
    THEN chip_cx_x10(g) - 10 * g.aperture_radius - 10 * g.omega_taper_cpw_inset
    ELSE chip_cx_x10(g) - 10 * g.aperture_radius

right_cpw_start_x10(g) ==
    IF g.design = "5x5"
    THEN chip_cx_x10(g) + 10 * g.aperture_radius + 10 * g.omega_taper_cpw_inset
    ELSE chip_cx_x10(g) + 10 * g.aperture_radius

\* a polygon committed to the gold layer of the die cell
gold_shape(kind, pts) == [kind |-> kind, pts |-> pts]

\* the four corners of a taper between the half widths w1 at x1 and w2 at x2
taper_pts(g, x1, w1, x2, w2) ==
    <<Point(x1, chip_cy_x10(g) - w1), Point(x2, chip_cy_x10(g) - w2),
      Point(x2, chip_cy_x10(g) + w2), Point(x1, chip_cy_x10(g) + w1)>>

\* 5x5: pad and taper are one polygon of six vertices
left_pad_with_taper(g) ==
    <<Point(left_pad_x_x10(g), chip_cy_x10(g) - 5 * g.rf_pad_width),
      Point(left_pad_x_x10(g), chip_cy_x10(g) + 5 * g.rf_pad_width),
      Point(left_pad_right_x_x10(g), chip_cy_x10(g) + 5 * g.rf_pad_width),
      Point(pad_left_taper_end_x10(g), chip_cy_x10(g) + 5 * g.cpw_signal_width),
      Point(pad_left_taper_end_x10(g), chip_cy_x10(g) - 5 * g.cpw_signal_width),
      Point(left_pad_right_x_x10(g), chip_cy_x10(g) - 5 * g.rf_pad_width)>>

right_pad_with_taper(g) ==
    <<Point(pad_right_taper_start_x10(g), chip_cy_x10(g) - 5 * g.cpw_signal_width),
      Point(pad_right_taper_start_x10(g), chip_cy_x10(g) + 5 * g.cpw_signal_width),
      Point(right_pad_x_x10(g), chip_cy_x10(g) + 5 * g.rf_pad_width),
      Point(right_pad_x_x10(g) + 10 * g.rf_pad_height, chip_cy_x10(g) + 5 * g.rf_pad_width),
      Point(right_pad_x_x10(g) + 10 * g.rf_pad_height, chip_cy_x10(g) - 5 * g.rf_pad_width),
      Point(right_pad_x_x10(g), chip_cy_x10(g) - 5 * g.rf_pad_width)>>

\* 6x6: the pads are boxes
left_pad_box(g) ==
    Box(left_pad_x_x10(g), chip_cy_x10(g) - 5 * g.rf_pad_width,
        left_pad_x_x10(g) + 10 * g.rf_pad_height, chip_cy_x10(g) + 5 * g.rf_pad_width)

right_pad_box(g) ==
    Box(right_pad_x_x10(g), chip_cy_x10(g) - 5 * g.rf_pad_width,
        right_pad_x_x10(g) + 10 * g.rf_pad_height, chip_cy_x10(g) + 5 * g.rf_pad_width)

rf_bond_pad_shapes(g) ==
    IF g.design = "5x5"
    THEN <<gold_shape("left_pad_with_taper", left_pad_with_taper(g)),
           gold_shape("right_pad_with_taper", right_pad_with_taper(g))>>
    ELSE <<gold_shape("left_pad_box", left_pad_box(g)),
           gold_shape("right_pad_box", right_pad_box(g))>>

\* 6x6: the pad tapers are drawn by create_cpw_signal_path
pad_taper_shapes(g) ==
    IF g.design = "5x5" THEN << >>
    ELSE <<gold_shape("left_taper",
                      taper_pts(g, left_pad_right_x_x10(g), 5 * g.rf_pad_width,
                                pad_left_taper_end_x10(g), 5 * g.cpw_signal_width)),
           gold_shape("right_taper",
                      taper_pts(g, pad_right_taper_start_x10(g), 5 * g.cpw_signal_width,
                                right_pad_x_x10(g), 5 * g.rf_pad_width))>>

\* if left_cpw_end_x > left_taper_end_x / if right_cpw_start_x < right_taper_start_x
cpw_shapes(g) ==
    (IF left_cpw_end_x10(g) > pad_left_taper_end_x10(g)
     THEN <<gold_shape("left_cpw",
                       Box(pad_left_taper_end_x10(g), chip_cy_x10(g) - 5 * g.cpw_signal_width,
                           left_cpw_end_x10(g), chip_cy_x10(g) + 5 * g.cpw_signal_width))>>
     ELSE << >>)
    \o
    (IF right_cpw_start_x10(g) < pad_right_taper_start_x10(g)
     THEN <<gold_shape("right_cpw",
                       Box(right_cpw_start_x10(g), chip_cy_x10(g) - 5 * g.cpw_signal_width,
                           pad_right_taper_start_x10(g), chip_cy_x10(g) + 5 * g.cpw_signal_width))>>
     ELSE << >>)

\* half of the width the resonator taper narrows to: the omega trace, or
\* taper_end_width = 10 when the die has no omega
taper_narrow_half_x10(g) == IF g.omega_count > 0 THEN 5 * g.omega_trace_width ELSE 50

\* create_omega_resonators: cpw_end_left = cx - aperture_radius; the 5x5 taper
\* starts at cpw_end_left - omega_taper_cpw_inset, the 6x6 taper at cpw_end_left
omega_left_taper_start_x10(g) ==
    IF g.design = "5x5"
    THEN (chip_cx_x10(g) - 10 * g.aperture_radius) - 10 * g.omega_taper_cpw_inset
    ELSE chip_cx_x10(g) - 10 * g.aperture_radius

omega_right_taper_end_x10(g) ==
    IF g.design = "5x5"
    THEN (chip_cx_x10(g) + 10 * g.aperture_radius) + 10 * g.omega_taper_cpw_inset
    ELSE chip_cx_x10(g) + 10 * g.aperture_radius

\* the tapers from the CPW width to the resonator trace
omega_taper_shapes(g) ==
    <<gold_shape("left_omega_taper",
                 taper_pts(g, omega_left_taper_start_x10(g), 5 * g.cpw_signal_width,
                           omega_left_taper_start_x10(g) + 10 * g.omega_taper_length,
                           taper_narrow_half_x10(g))),
      gold_shape("right_omega_taper",
                 taper_pts(g, omega_right_taper_end_x10(g) - 10 * g.omega_taper_length,
                           taper_narrow_half_x10(g),
                           omega_right_taper_end_x10(g), 5 * g.cpw_signal_width))>>

\* cpw_half_height = cpw_signal_width / 2 + gap
cpw_half_height_x10(g) == 5 * g.cpw_signal_width + 10 * g.cpw_gap

\* math.sqrt(r**2 - cpw_half_height**2) raises ValueError on a negative argument
circle_inset_raises(g) ==
    (10 * g.aperture_radius) * (10 * g.aperture_radius)
        - cpw_half_height_x10(g) * cpw_half_height_x10(g) < 0

\* frac = abs(idx) / ((n - 1) / 2.0) inside `for i in range(n)`
dc_pad_geometry_raises(g) == g.design = "5x5" /\ g.dc_pad_count = 1

\* math.tan(math.radians(deg)) in thousandths, for the angles of the configurations
tan_x1000(deg) ==
    CASE deg = 0 -> 0
      [] deg = 25 -> 466
      [] deg = 50 -> 1192
      [] OTHER -> 1000

\* math.copysign(magnitude, s): the sign of s, and s = 0.0 counts as positive
copysign(magnitude, s) == IF s < 0 THEN -magnitude ELSE magnitude

\* one entry of the list of _dc_pad_geometry(sign): pad i of range(n), lengths _x10;
\* idx = i - (n - 1) / 2.0 is kept doubled
dc_pad(g, sign, i) ==
    LET n        == g.dc_pad_count
        idx_x2   == 2 * i - (n - 1)
        chip_cx  == chip_cx_x10(g)
        chip_cy  == chip_cy_x10(g)
        r        == 10 * g.aperture_radius
        pad_cx   == chip_cx + idx_x2 * 5 * g.dc_pad_pitch
        pad_cy_abs == 10 * g.dc_pad_cy - (Abs(idx_x2) * 10 * g.dc_pad_stagger) \div (n - 1)
        pad_cy   == chip_cy + sign * pad_cy_abs
        taper_start_y == pad_cy - sign * 5 * g.dc_pad_height
        taper_dx == (10 * g.dc_taper_height * tan_x1000(g.dc_taper_angle)) \div 1000
    IN  [pad_cx |-> pad_cx, pad_cy |-> pad_cy,
         taper_start_y |-> taper_start_y,
         taper_end_x |-> pad_cx - copysign(taper_dx, pad_cx - chip_cx),
         taper_end_y |-> taper_start_y - sign * 10 * g.dc_taper_height,
         vertical_x |-> chip_cx + idx_x2 * 5 * g.dc_feedline_pitch,
         vertical_y |-> chip_cy + sign * 10 * g.dc_feedline_vertical_cy,
         aperture_y |-> chip_cy + sign * r,
         fanout_start_y |-> chip_cy + sign * (r - 10 * g.dc_fanout_straight),
         fanout_x |-> chip_cx + idx_x2 * 5 * g.dc_fanout_pitch,
         fanout_y |-> chip_cy + sign * (r - 10 * g.dc_fanout_height)]

\* _dc_pad_geometry(sign) where it does not raise
dc_pad_geometry(g, sign) == [j \in 1..g.dc_pad_count |-> dc_pad(g, sign, j - 1)]

\* a polygon of the DC access system: stage of pad i (0-based) on side sign
dc_shape(kind, sign, i, pts) == [kind |-> kind, sign |-> sign, i |-> i, pts |-> pts]

\* the five polygons create_dc_access_pads inserts for one pad, each widened in
\* x by clr: clr = 0 gives the signal polygons
dc_pad_box(g, p, sign, i, clr) ==
    dc_shape("dc_pad", sign, i,
             Box(p.pad_cx - 5 * g.dc_pad_width - clr, p.pad_cy - 5 * g.dc_pad_height,
                 p.pad_cx + 5 * g.dc_pad_width + clr, p.pad_cy + 5 * g.dc_pad_height))

dc_taper(g, p, sign, i, clr) ==
    dc_shape("dc_taper", sign, i,
             <<Point(p.pad_cx - 5 * g.dc_pad_width - clr, p.taper_start_y),
               Point(p.pad_cx + 5 * g.dc_pad_width + clr, p.taper_start_y),
               Point(p.taper_end_x + 5 * g.dc_feedline_width + clr, p.taper_end_y),
               Point(p.taper_end_x - 5 * g.dc_feedline_width - clr, p.taper_end_y)>>)

dc_angled(g, p, sign, i, clr) ==
    dc_shape("dc_angled", sign, i,
             <<Point(p.taper_end_x - 5 * g.dc_feedline_width - clr, p.taper_end_y),
               Point(p.taper_end_x + 5 * g.dc_feedline_width + clr, p.taper_end_y),
               Point(p.vertical_x + 5 * g.dc_feedline_width + clr, p.vertical_y),
               Point(p.vertical_x - 5 * g.dc_feedline_width - clr, p.vertical_y)>>)

\* the vertical feedline runs from vertical_y to y_end: fanout_start_y for the
\* signal, fanout_y for the clearance
dc_vertical(g, p, sign, i, clr, y_end) ==
    dc_shape("dc_vertical", sign, i,
             Box(p.vertical_x - 5 * g.dc_feedline_width - clr,
                 IF p.vertical_y <= y_end THEN p.vertical_y ELSE y_end,
                 p.vertical_x + 5 * g.dc_feedline_width + clr,
                 IF p.vertical_y >= y_end THEN p.vertical_y ELSE y_end))

dc_fanout(g, p, sign, i) ==
    dc_shape("dc_fanout", sign, i,
             <<Point(p.vertical_x - 5 * g.dc_feedline_width, p.fanout_start_y),
               Point(p.vertical_x + 5 * g.dc_feedline_width, p.fanout_start_y),
               Point(p.fanout_x + 5 * g.dc_feedline_width, p.fanout_y),
               Point(p.fanout_x - 5 * g.dc_feedline_width, p.fanout_y)>>)

\* the body of `for p in self._dc_pad_geometry(sign)` in create_dc_access_pads
dc_signal_of_pad(g, p, sign, i) ==
    <<dc_pad_box(g, p, sign, i, 0), dc_taper(g, p, sign, i, 0), dc_angled(g, p, sign, i, 0),
      dc_vertical(g, p, sign, i, 0, p.fanout_start_y), dc_fanout(g, p, sign, i)>>

\* the body of `for p in self._dc_pad_geometry(sign)` in create_ground_plane
dc_clearance_of_pad(g, p, sign, i) ==
    <<dc_taper(g, p, sign, i, 10 * g.dc_feedline_clearance),
      dc_angled(g, p, sign, i, 10 * g.dc_feedline_clearance),
      dc_vertical(g, p, sign, i, 10 * g.dc_feedline_clearance, p.fanout_y)>>

\* the polygons of all pads of one side, pad after pad; per_pad of them each
dc_side(g, sign, of_pad(_, _, _, _), per_pad) ==
    [j \in 1..(per_pad * g.dc_pad_count) |->
        of_pad(g, dc_pad_geometry(g, sign)[((j - 1) \div per_pad) + 1], sign,
               (j - 1) \div per_pad)[((j - 1) % per_pad) + 1]]

\* `for sign in [+1, -1]` of create_dc_access_pads
dc_signal_shapes(g) ==
    dc_side(g, 1, dc_signal_of_pad, 5) \o dc_side(g, -1, dc_signal_of_pad, 5)

\* the cutout the ground plane opens on one side before the feedline clearances
dc_cutout_cuts(g, sign) ==
    LET chip_cx   == chip_cx_x10(g)
        cutout_cy == chip_cy_x10(g) + sign * 10 * g.dc_cutout_cy
        aw_half   == 5 * g.dc_cutout_aperture_width
        dx_taper  == 5 * g.dc_cutout_width - aw_half
        taper_dy  == IF tan_x1000(g.dc_cutout_taper_angle) > 0
                     THEN (dx_taper * 1000) \div tan_x1000(g.dc_cutout_taper_angle)
                     ELSE 0
        extension == 10 * g.dc_fanout_height + 10 * g.dc_fanout_straight
        cutout_inner_y  == cutout_cy - sign * 5 * g.dc_cutout_height
        taper_end_y     == cutout_inner_y - sign * taper_dy
        aperture_edge_y == chip_cy_x10(g) + sign * 10 * g.aperture_radius
        ext_y           == aperture_edge_y - sign * extension
        lo(a, b) == IF a <= b THEN a ELSE b
        hi(a, b) == IF a >= b THEN a ELSE b
    IN  <<dc_shape("dc_cutout_box", sign, 0,
                   Box(chip_cx - 5 * g.dc_cutout_width, cutout_cy - 5 * g.dc_cutout_height,
                       chip_cx + 5 * g.dc_cutout_width, cutout_cy + 5 * g.dc_cutout_height)),
          dc_shape("dc_cutout_taper", sign, 0,
                   <<Point(chip_cx - 5 * g.dc_cutout_width, cutout_inner_y),
                     Point(chip_cx + 5 * g.dc_cutout_width, cutout_inner_y),
                     Point(chip_cx + aw_half, taper_end_y),
                     Point(chip_cx - aw_half, taper_end_y)>>),
          dc_shape("dc_channel", sign, 0,
                   Box(chip_cx - aw_half, lo(taper_end_y, aperture_edge_y),
                       chip_cx + aw_half, hi(taper_end_y, aperture_edge_y))),
          dc_shape("dc_extension", sign, 0,
                   Box(chip_cx - aw_half, lo(aperture_edge_y, ext_y),
                       chip_cx + aw_half, hi(aperture_edge_y, ext_y)))>>

\* `for sign in [+1, -1]` of create_ground_plane: what it subtracts for the DC
\* access system
dc_ground_cuts(g) ==
    dc_cutout_cuts(g, 1) \o dc_side(g, 1, dc_clearance_of_pad, 3)
    \o dc_cutout_cuts(g, -1) \o dc_side(g, -1, dc_clearance_of_pad, 3)

ChipStart(g) ==
    [routine |-> "create_chip", gold |-> g, pc |-> "create_rf_bond_pads",
     cell_shapes |-> << >>, pad_geometry |-> << >>, raised |-> "none", returned |-> FALSE]

InitChip ==
    /\ \E g \in ChipDesigns : ring = ChipStart(g)
    /\ BuildStart(DefaultConfig)
    /\ run = 1
    /\ clock = 0
    /\ first = NoFirst
    /\ probe = NoProbe
    /\ probe_out = NoProbeOut

create_rf_bond_pads ==
    /\ ring.pc = "create_rf_bond_pads"
    /\ ring' = [ring EXCEPT !.cell_shapes = ring.cell_shapes \o rf_bond_pad_shapes(ring.gold),
                            !.pc = "create_cpw_signal_path"]
    /\ UNCHANGED <<build_vars, probe_vars>>

create_cpw_signal_path ==
    /\ ring.pc = "create_cpw_signal_path"
    /\ ring' = [ring EXCEPT !.cell_shapes = ring.cell_shapes \o pad_taper_shapes(ring.gold)
                                              \o cpw_shapes(ring.gold)
                                              \o omega_taper_shapes(ring.gold),
                            !.pc = "create_dc_access_pads"]
    /\ UNCHANGED <<build_vars, probe_vars>>

\* 5x5 create_dc_access_pads; the 6x6 create_dc_contacts (top and bottom) is `pass`
create_dc_access_pads ==
    /\ ring.pc = "create_dc_access_pads"
    /\ ring' = IF ring.gold.design = "6x6"
               THEN [ring EXCEPT !.pc = "create_ground_plane"]
               ELSE IF dc_pad_geometry_raises(ring.gold)
               THEN [ring EXCEPT !.raised = "ZeroDivisionError: float division by zero",
                                 !.pc = "done"]
               ELSE [ring EXCEPT !.pad_geometry = <<dc_pad_geometry(ring.gold, 1),
                                                    dc_pad_geometry(ring.gold, -1)>>,
                                 !.cell_shapes = ring.cell_shapes \o dc_signal_shapes(ring.gold),
                                 !.pc = "create_alignment_marks"]
    /\ UNCHANGED <<build_vars, probe_vars>>

\* 5x5 only: create_alignment_marks, create_small_alignment_marks, create_vernier_marks
create_alignment_marks ==
    /\ ring.pc = "create_alignment_marks"
    /\ ring' = [ring EXCEPT !.cell_shapes = Append(ring.cell_shapes,
                                                   gold_shape("alignment_marks", << >>)),
                            !.pc = "create_ground_plane"]
    /\ UNCHANGED <<build_vars, probe_vars>>

\* the 5x5 ground plane computes circle_inset before its fifth subtraction; the
\* 6x6 ground plane has no such computation
create_ground_plane ==
    /\ ring.pc = "create_ground_plane"
    /\ ring' = IF ring.gold.design = "5x5" /\ circle_inset_raises(ring.gold)
               THEN [ring EXCEPT !.raised = "ValueError: math domain error", !.pc = "done"]
               ELSE [ring EXCEPT !.cell_shapes =
                                     Append(ring.cell_shapes,
                                            [kind |-> "ground_region", pts |-> << >>,
                                             cuts |-> IF ring.gold.design = "5x5"
                                                      THEN dc_ground_cuts(ring.gold)
                                                      ELSE << >>]),
                                 !.pc = "create_labels"]
    /\ UNCHANGED <<build_vars, probe_vars>>

\* create_labels and the platinum thermometers, then `return cell`
create_labels ==
    /\ ring.pc = "create_labels"
    /\ ring' = [ring EXCEPT !.cell_shapes = Append(ring.cell_shapes,
                                                   gold_shape("labels_prt", << >>)),
                            !.returned = TRUE,
                            !.pc = "done"]
    /\ UNCHANGED <<build_vars, probe_vars>>

NextChip ==
    \/ create_rf_bond_pads
    \/ create_cpw_signal_path
    \/ create_dc_access_pads
    \/ create_alignment_marks
    \/ create_ground_plane
    \/ create_labels

SpecChip == InitChip /\ [][NextChip]_vars

-----------------------------------------------------------------------------
(* C17 *)

\* the CPW channel and the DC clearance channel fit into the aperture
clearances_fit(g) ==
    /\ cpw_half_height_x10(g) <= 10 * g.aperture_radius
    /\ g.dc_cutout_aperture_width <= 2 * g.aperture_radius

\* a polygon without area: all its vertices on one vertical or horizontal line
degenerate(pts) ==
    /\ pts # << >>
    /\ \/ Cardinality({pts[i][1] : i \in 1..Len(pts)}) = 1
       \/ Cardinality({pts[i][2] : i \in 1..Len(pts)}) = 1

chip_routine == ring.routine = "create_chip"

\* C17: when the CPW channel (cpw_signal_width / 2 + cpw_gap) or the DC
\* clearance channel does not fit into the aperture, create_chip ends in an
\* error and commits no degenerate polygon.
C17_InfeasibleConfigRejected ==
    (chip_routine /\ ring.pc = "done" /\ ~clearances_fit(ring.gold)) =>
        /\ ring.raised # "none"
        /\ ~ring.returned
        /\ \A i \in 1..Len(ring.cell_shapes) : ~degenerate(ring.cell_shapes[i].pts)

-----------------------------------------------------------------------------
(* C18 *)

traces_built ==
    cfg.electroplating /\ pc \in {"corner_marks", "mask_labels", "built", "flatten", "exported"}

traces(kind) == { sh \in shapes : sh.kind = kind }

die_edges(k, extent) ==
    { valid_positions[i][k] : i \in 1..Len(valid_positions) }
    \cup { valid_positions[i][k] + extent : i \in 1..Len(valid_positions) }

\* one trace of the kind centred on every edge coordinate, and no other trace
one_trace_per_edge(kind, edges, lo, hi) ==
    /\ \A v \in edges :
          Cardinality({ sh \in traces(kind) : sh.g[lo] + sh.g[hi] = 2 * v }) = 1
    /\ \A sh \in traces(kind) : \E v \in edges : sh.g[lo] + sh.g[hi] = 2 * v
    /\ Cardinality(traces(kind)) = Cardinality(edges)

corner_in_usable_circle(x, y) ==
    x * x + y * y <= usable_radius_of(cfg) * usable_radius_of(cfg)

traces_in_usable_circle ==
    \A sh \in traces("vtrace") \cup traces("htrace") :
        /\ corner_in_usable_circle(sh.g[1], sh.g[2])
        /\ corner_in_usable_circle(sh.g[1], sh.g[4])
        /\ corner_in_usable_circle(sh.g[3], sh.g[2])
        /\ corner_in_usable_circle(sh.g[3], sh.g[4])

traces_above_flat_line ==
    \A sh \in traces("vtrace") \cup traces("htrace") :
        sh.g[2] >= flat_y_of(cfg) + flat_exclusion_zone

traces_at_every_edge ==
    /\ one_trace_per_edge("vtrace", die_edges(1, base_chip_config(cfg).chip_width), 1, 3)
    /\ one_trace_per_edge("htrace", die_edges(2, base_chip_config(cfg).chip_height), 2, 4)

\* C18: once the dicing traces are built there is exactly one vertical trace
\* per distinct die-edge x and one horizontal trace per distinct die-edge y,
\* every trace rectangle lies within the usable circle, and no trace rectangle
\* reaches below the flat-exclusion line y = flat_y + flat_exclusion_zone.
C18_DicingTracesClipped ==
    traces_built =>
        /\ traces_at_every_edge
        /\ traces_in_usable_circle
        /\ traces_above_flat_line

-----------------------------------------------------------------------------
(* C19 *)

\* the bars are drawn inside `if config.edge_fill_enabled`
bars_built ==
    /\ cfg.edge_fill_enabled
    /\ pc \in {"studded_ring", "dicing_traces", "corner_marks", "mask_labels", "built",
               "flatten", "exported"}

bars(kind) == { sh \in shapes : sh.kind = kind }

\* v is the least (sign = 1) or the greatest (sign = -1) value of column k of
\* the placements, shifted by the die extent
bounding_edge(v, k, extent, sign) ==
    /\ \E i \in 1..Len(valid_positions) : v = valid_positions[i][k] + extent
    /\ \A i \in 1..Len(valid_positions) : sign * v <= sign * (valid_positions[i][k] + extent)

well_formed_box(g) == g[1] <= g[3] /\ g[2] <= g[4]

-----------------------------------------------------------------------------
(* C20 *)

\* the stages of the signal path from the left pad to the resonator and from
\* the resonator to the right pad, by the names of their polygons
left_chain(g) ==
    IF g.design = "5x5"
    THEN <<"left_pad_with_taper", "left_cpw", "left_omega_taper">>
    ELSE <<"left_pad_box", "left_taper", "left_cpw", "left_omega_taper">>

right_chain(g) ==
    IF g.design = "5x5"
    THEN <<"right_omega_taper", "right_cpw", "right_pad_with_taper">>
    ELSE <<"right_omega_taper", "right_cpw", "right_taper", "right_pad_box">>

committed(kind) == { ring.cell_shapes[i] : i \in { j \in 1..Len(ring.cell_shapes) :
                                                     ring.cell_shapes[j].kind = kind } }

xs_of(pts) == { pts[i][1] : i \in 1..Len(pts) }

ys_at(pts, x) == { pts[i][2] : i \in { j \in 1..Len(pts) : pts[j][1] = x } }

x_min(pts) == CHOOSE x \in xs_of(pts) : \A other \in xs_of(pts) : x <= other

x_max(pts) == CHOOSE x \in xs_of(pts) : \A other \in xs_of(pts) : x >= other

x_mid(pts) == CHOOSE x \in xs_of(pts) : x # x_min(pts) /\ x # x_max(pts)

\* stage a ends where stage b begins, with the same y extent
joined(a, b) ==
    /\ x_max(a.pts) = x_min(b.pts)
    /\ ys_at(a.pts, x_max(a.pts)) = ys_at(b.pts, x_min(b.pts))

chain_continuous(chain) ==
    /\ \A n \in 1..Len(chain) : Cardinality(committed(chain[n])) = 1
    /\ \A n \in 1..(Len(chain) - 1) :
          \A a \in committed(chain[n]), b \in committed(chain[n + 1]) : joined(a, b)

\* the pad part of a combined pad-and-taper polygon keeps the pad width up to
\* the x where the taper begins
pad_joined_to_taper(kind, pad_outer_x(_), taper_wide_x(_)) ==
    \A sh \in committed(kind) :
        /\ Cardinality(xs_of(sh.pts)) = 3
        /\ ys_at(sh.pts, pad_outer_x(sh.pts)) = ys_at(sh.pts, taper_wide_x(sh.pts))

signal_path_drawn ==
    chip_routine /\ ring.pc \notin {"create_rf_bond_pads", "create_cpw_signal_path"}

-----------------------------------------------------------------------------
(* C21 *)

dc_pads_called ==
    /\ chip_routine
    /\ ring.gold.design = "5x5"
    /\ ring.pc \notin {"create_rf_bond_pads", "create_cpw_signal_path", "create_dc_access_pads"}

\* the x coordinates a and b are mirror images about chip_cx
mirrored(a, b) == a + b = 2 * chip_cx_x10(ring.gold)

\* C21: for every pad count n >= 1 _dc_pad_geometry returns n entries without
\* error, and the pad, taper-end, vertical-feed and fan-out x of pad i mirror
\* those of pad n-1-i about chip_cx.
C21_PadsMirrored ==
    (dc_pads_called /\ ring.gold.dc_pad_count >= 1) =>
        /\ ring.raised # "ZeroDivisionError: float division by zero"
        /\ Len(ring.pad_geometry) = 2
        /\ \A side \in 1..Len(ring.pad_geometry) :
              LET pads == ring.pad_geometry[side]
                  n    == ring.gold.dc_pad_count
              IN  /\ Len(pads) = n
                  /\ \A j \in 1..Len(pads) :
                        /\ mirrored(pads[j].pad_cx, pads[n + 1 - j].pad_cx)
                        /\ mirrored(pads[j].taper_end_x, pads[n + 1 - j].taper_end_x)
                        /\ mirrored(pads[j].vertical_x, pads[n + 1 - j].vertical_x)
                        /\ mirrored(pads[j].fanout_x, pads[n + 1 - j].fanout_x)

-----------------------------------------------------------------------------
(* C22 *)

dc_stage_kinds == {"dc_pad", "dc_taper", "dc_angled", "dc_vertical", "dc_fanout"}

\* the polygon cut has the y coordinates of the polygon stage, vertex by vertex,
\* and every x moved outwards by clr
widened_by(cut_pts, stage_pts, clr) ==
    /\ Len(cut_pts) = Len(stage_pts)
    /\ \A k \in 1..Len(stage_pts) :
          /\ cut_pts[k][2] = stage_pts[k][2]
          /\ Abs(cut_pts[k][1] - stage_pts[k][1]) = clr
    /\ x_min(cut_pts) = x_min(stage_pts) - clr
    /\ x_max(cut_pts) = x_max(stage_pts) + clr

ground_cuts == UNION { Range(sh.cuts) : sh \in committed("ground_region") }

dc_signal_committed ==
    { ring.cell_shapes[j] : j \in { k \in 1..Len(ring.cell_shapes) :
                                      ring.cell_shapes[k].kind \in dc_stage_kinds } }

has_clearance(stage) ==
    \E c \in ground_cuts :
        widened_by(c.pts, stage.pts, um_to_dbu_x10(10 * ring.gold.dc_feedline_clearance))

ground_plane_built ==
    chip_routine /\ ring.gold.design = "5x5" /\ committed("ground_region") # {}

\* C22: once the ground plane is built, every one of the five stage polygons
\* of every DC pad has a clearance polygon among the ground-plane cuts with the
\* same y coordinates and x widened by dc_feedline_clearance on both sides.
C22_ClearanceForEveryStage ==
    ground_plane_built => \A stage \in dc_signal_committed : has_clearance(stage)

-----------------------------------------------------------------------------
(* C23 *)

\* the gap boxes subtracted or stored so far by the ring routine under way
ring_gaps ==
    IF ring.routine \in RingRoutines
    THEN UNION {r.cuts : r \in ring_regions} \cup Range(ring.gap_boxes)
    ELSE {}

\* the gap box covers the half of the ring that faces the die centre line
\* y = 0: from the ring centre past the outer edge on that side
faces_die_centre(g, b) ==
    /\ b.cy > 0 => b.y2 = b.cy /\ b.y1 < b.cy - outer_radius_x10(g)
    /\ b.cy < 0 => b.y1 = b.cy /\ b.y2 > b.cy + outer_radius_x10(g)
    /\ b.cy # 0

-----------------------------------------------------------------------------
(* C24 *)

(* The region outer circle - inner circle - gap box of one ring, sampled on
   a square lattice around the ring centre.  Lengths are in hundredths of a
   µm; the lattice step is a quarter of the trace width, so the trace is
   four samples wide for every parameter set, and the sample points sit at
   odd multiples of half a step, off the axes of the ring.  The 64-segment
   polygons of the code differ from the circles by less than a step. *)

half_step(g) == (100 * g.omega_trace_width) \div 8

outer_radius_x100(g) == 100 * g.omega_center_radius + 50 * g.omega_trace_width

inner_radius_x100(g) == 100 * g.omega_center_radius - 50 * g.omega_trace_width

lattice(g) ==
    LET n == (outer_radius_x100(g) \div (2 * half_step(g))) + 1
    IN (0 - n .. n - 1) \X (0 - n .. n - 1)

sample_x(g, c) == (2 * c[1] + 1) * half_step(g)

sample_y(g, c) == (2 * c[2] + 1) * half_step(g)

in_annulus(g, c) ==
    LET d2 == sample_x(g, c) * sample_x(g, c) + sample_y(g, c) * sample_y(g, c)
    IN /\ d2 <= outer_radius_x100(g) * outer_radius_x100(g)
       /\ d2 >= inner_radius_x100(g) * inner_radius_x100(g)

\* the sample lies in the gap box b, taken relative to the ring centre
in_gap_box(g, b, c) ==
    /\ sample_x(g, c) >= 0 - 10 * b.x_half /\ sample_x(g, c) <= 10 * b.x_half
    /\ sample_y(g, c) >= 10 * (b.y1 - b.cy) /\ sample_y(g, c) <= 10 * (b.y2 - b.cy)

\* the samples of ring_region after the subtraction of the gap box
arc_samples(g, b) == {c \in lattice(g) : in_annulus(g, c) /\ ~in_gap_box(g, b, c)}

neighbours(c) ==
    {<<c[1] + 1, c[2]>>, <<c[1] - 1, c[2]>>, <<c[1], c[2] + 1>>, <<c[1], c[2] - 1>>}

\* one step of the fill: st is the pair of the samples seen so far and the
\* samples seen first in the last step
fill_step(st, samples) ==
    LET new == (UNION {neighbours(c) : c \in st[2]} \cap samples) \ st[1]
    IN <<st[1] \cup new, new>>

fill_step4(st, samples) ==
    fill_step(fill_step(fill_step(fill_step(st, samples), samples), samples), samples)

\* the connected piece of the samples that holds the samples seen
RECURSIVE flood(_, _)
flood(st, samples) ==
    IF st[2] = {} THEN st[1]
    ELSE flood(fill_step4(fill_step4(fill_step4(fill_step4(st, samples), samples),
                                     samples), samples), samples)

RECURSIVE components(_)
components(samples) ==
    IF samples = {} THEN 0
    ELSE LET c == CHOOSE x \in samples : TRUE
         IN 1 + components(samples \ flood(<<{c}, {c}>>, samples))

\* the loop is open: on the side of the gap, the columns of samples between
\* the two edges of the gap box hold no metal, and there is such a column
loop_broken(g, b) ==
    LET side == IF b.ring_type = "top" THEN 1 ELSE 0 - 1
        across == {c \in lattice(g) :
                      /\ in_annulus(g, c)
                      /\ sample_y(g, c) * side > 0
                      /\ sample_x(g, c) >= 0 - 10 * b.x_half
                      /\ sample_x(g, c) <= 10 * b.x_half}
    IN across # {} /\ across \cap arc_samples(g, b) = {}

\* a ring routine has just subtracted the gap box from ring_region
ring_gap_subtracted ==
    /\ ring.routine \in {"create_omega", "chip6x6"} /\ ring.pc = "insert"
    /\ ring.ring_region.cuts # {}

-----------------------------------------------------------------------------
(* Unit conversion: _um_to_dbu of the designer classes.  A length and a grid
   size are whole numbers of 0.1 nm, so that um / dbu is the rational
   um / dbu of two integers: MaskConfig.dbu = 0.01 µm is 100 and
   ChipConfig.dbu = 0.001 µm is 10. *)

\* MaskConfig.dbu and ChipConfig.dbu, in units of 0.1 nm
GridSizes == {10, 100}

Designers == {"MaskDesigner", "ChipDesigner"}

\* Python round(n / d) for d > 0: to the nearest integer, a tie to the even one
round_half_even(n, d) ==
    LET q == n \div d
        r == n % d
    IN IF 2 * r < d THEN q
       ELSE IF 2 * r > d THEN q + 1
       ELSE IF q % 2 = 0 THEN q ELSE q + 1

\* mutant: the division done by the grid of ChipConfig whatever dbu is shared
um_to_dbu_own_grid_mut(um, dbu) == round_half_even(um, 10)

\* MaskDesigner._um_to_dbu: int(round(um_value / self.mask_config.dbu))
MaskDesigner_um_to_dbu(um, dbu) == round_half_even(um, dbu)

\* ChipDesigner._um_to_dbu: int(round(um / self.chip.dbu))
ChipDesigner_um_to_dbu(um, dbu) == round_half_even(um, dbu)

NoDbuOut == [called |-> {}, MaskDesigner |-> 0, ChipDesigner |-> 0]

InitDbu ==
    /\ probe \in [um : (0 - MaxLength)..MaxLength, dbu : GridSizes]
    /\ probe_out = NoDbuOut
    /\ BuildStart(DefaultConfig)
    /\ run = 1
    /\ clock = 0
    /\ first = NoFirst
    /\ ring = NoRing

call_MaskDesigner_um_to_dbu ==
    /\ "MaskDesigner" \notin probe_out.called
    /\ probe_out' = [probe_out EXCEPT
                         !.called = @ \cup {"MaskDesigner"},
                         !.MaskDesigner = MaskDesigner_um_to_dbu(probe.um, probe.dbu)]
    /\ UNCHANGED <<build_vars, probe, ring>>

call_ChipDesigner_um_to_dbu ==
    /\ "ChipDesigner" \notin probe_out.called
    /\ probe_out' = [probe_out EXCEPT
                         !.called = @ \cup {"ChipDesigner"},
                         !.ChipDesigner = ChipDesigner_um_to_dbu(probe.um, probe.dbu)]
    /\ UNCHANGED <<build_vars, probe, ring>>

NextDbu ==
    \/ call_MaskDesigner_um_to_dbu
    \/ call_ChipDesigner_um_to_dbu

SpecDbu == InitDbu /\ [][NextDbu]_vars

-----------------------------------------------------------------------------
(* C25 *)

\* the value of designer d converted back to units of 0.1 nm is within one
\* grid unit of the length converted
round_trip_within_grid(d) ==
    LET back == probe_out[d] * probe.dbu
    IN back - probe.um <= probe.dbu /\ probe.um - back <= probe.dbu

\* C25: for every length v and grid size dbu, _um_to_dbu(v) multiplied back
\* by dbu differs from v by at most one grid unit, and the designer classes
\* that share the dbu return the same integer for the same v.
C25_RoundTripWithinGrid ==
    /\ \A d \in probe_out.called : round_trip_within_grid(d)
    /\ probe_out.called = Designers => probe_out.MaskDesigner = probe_out.ChipDesigner

\* both designers have converted a negative length that lies half way between
\* two grid points of the 0.01 µm grid
C25_Witness ==
    /\ probe_out.called = Designers
    /\ probe.dbu = 100 /\ probe.um < 0 /\ probe.um % 100 = 50
    /\ probe_out.MaskDesigner # 0

-----------------------------------------------------------------------------
(* C26 *)

\* q is the next placed die to the right of p in the same row of the wafer grid
right_neighbour(p, q) ==
    /\ p[2] = q[2] /\ p[1] < q[1]
    /\ ~\E r \in Range(valid_positions) : r[2] = p[2] /\ p[1] < r[1] /\ r[1] < q[1]

\* q is the next placed die above p in the same column of the wafer grid
upper_neighbour(p, q) ==
    /\ p[1] = q[1] /\ p[2] < q[2]
    /\ ~\E r \in Range(valid_positions) : r[1] = p[1] /\ p[2] < r[2] /\ r[2] < q[2]

\* C26: chip_spacing is the gap between chips: any two placed dies that are
\* neighbours in a row or a column of the wafer grid, also when they belong to
\* two adjacent unit cells, are separated by exactly chip_spacing.
C26_NeighboursSeparatedBySpacing ==
    (pc = "place_chips") =>
        \A p, q \in Range(valid_positions) :
            /\ right_neighbour(p, q) =>
                   q[1] - (p[1] + base_chip_config(cfg).chip_width) = cfg.chip_spacing
            /\ upper_neighbour(p, q) =>
                   q[2] - (p[2] + base_chip_config(cfg).chip_height) = cfg.chip_spacing

-----------------------------------------------------------------------------
(* The V4 mask: MaskDesigner.generate of 100mm_wafer_sample_omegas_maskV4.py.
   Lengths in µm are whole numbers of 0.5 nm, half a database unit of
   WaferConfig.dbu = 0.001 µm, so that the halves the code takes of unit-cell
   extents are whole numbers and _um_to_dbu has ties to round.  Coordinates
   of cell instances are in database units, as pya.Trans holds them.  The
   designer is the record held in ring. *)

\* WaferConfig.dbu = 0.001 µm
wafer_dbu == 2

\* array_size = 100000.0 µm in create_chip_array and create_alignment_marks
array_size == 200000000

\* MaskDesigner._um_to_dbu of the V4 mask: int(round(um / self.wafer.dbu))
V4_um_to_dbu(um) == round_half_even(um, wafer_dbu)

\* the name and center_radius columns of ChipVariants.variants; center_radius
\* is read only by `if variant.center_radius == 0`, and 62.5 is written 62
DefaultVariants ==
    <<[name |-> "no_omega", center_radius |-> 0],
      [name |-> "omega_30um", center_radius |-> 15],
      [name |-> "omega_60um", center_radius |-> 30],
      [name |-> "omega_80um", center_radius |-> 40],
      [name |-> "omega_100um", center_radius |-> 50],
      [name |-> "omega_125um", center_radius |-> 62],
      [name |-> "omega_150um", center_radius |-> 75],
      [name |-> "omega_200um", center_radius |-> 100],
      [name |-> "omega_250um", center_radius |-> 125]>>

\* die extents of 5000 µm, 5000.001 µm and 6000 µm
V4ChipSizes == {10000000, 10000002, 12000000}

V4UnitCounts == {2, 3}

V4VariantCounts == {4, 6, 9}

\* MaskDesigner(chip_config = ChipConfig(w, w),
\*              chip_variants = ChipVariants(variants, cols, rows))
V4Configs ==
    {[chip_width |-> w, chip_height |-> w, unit_cell_cols |-> c, unit_cell_rows |-> r,
      variants |-> SubSeq(DefaultVariants, 1, n)] :
        w \in V4ChipSizes, c \in V4UnitCounts, r \in V4UnitCounts, n \in V4VariantCounts}

\* the calls of generate that build the mask cell, in the order of the code
generate_calls ==
    <<"create_mask_plate_outline", "create_wafer_outline", "create_chip_array",
      "create_dicing_lanes", "create_alignment_marks", "clip_to_radius",
      "create_gold_ring", "create_mask_labels", "write">>

\* create_unit_cell: one instance of a chip cell per variant of the list, at
\* column idx % cols and row idx // cols of a grid centred at (0, 0)
V4_create_unit_cell(c) ==
    LET total_w == c.unit_cell_cols * c.chip_width
        total_h == c.unit_cell_rows * c.chip_height
    IN {[cell |-> c.variants[i].name, idx |-> i - 1,
         omega_count |-> IF c.variants[i].center_radius = 0 THEN 0 ELSE 4,
         x |-> V4_um_to_dbu((0 - total_w) \div 2
                            + ((i - 1) % c.unit_cell_cols) * c.chip_width),
         y |-> V4_um_to_dbu((0 - total_h) \div 2
                            + ((i - 1) \div c.unit_cell_cols) * c.chip_height)] :
            i \in 1..Len(c.variants)}

\* n_x = int(array_size // uc_w)
n_uc(c_count, extent) == array_size \div (c_count * extent)

\* origin_x = -((n_x - 1) * uc_w) / 2.0
uc_origin(n, uc) == (0 - (n - 1) * uc) \div 2

\* the unit-cell instances create_chip_array inserts into the mask cell
unit_cell_insts(c) ==
    LET uc_w == c.unit_cell_cols * c.chip_width
        uc_h == c.unit_cell_rows * c.chip_height
        n_x == n_uc(c.unit_cell_cols, c.chip_width)
        n_y == n_uc(c.unit_cell_rows, c.chip_height)
    IN {[cell |-> "unit_cell_3x3",
         x |-> V4_um_to_dbu(uc_origin(n_x, uc_w) + ix * uc_w),
         y |-> V4_um_to_dbu(uc_origin(n_y, uc_h) + iy * uc_h)] :
            ix \in 0..(n_x - 1), iy \in 0..(n_y - 1)}

\* mutant: the chips of the variants list counted
chip_count_from_variants_mut(c) ==
    n_uc(c.unit_cell_cols, c.chip_width) * n_uc(c.unit_cell_rows, c.chip_height)
        * Len(c.variants)

\* chip_count += cols * rows, once per unit-cell instance
chip_count_of(c) ==
    n_uc(c.unit_cell_cols, c.chip_width) * n_uc(c.unit_cell_rows, c.chip_height)
        * (c.unit_cell_cols * c.unit_cell_rows)

\* mutant: no cross on the outermost grid lines
cross_insts_inner_mut(c) ==
    LET uc_w == c.unit_cell_cols * c.chip_width
        uc_h == c.unit_cell_rows * c.chip_height
        n_uc_x == n_uc(c.unit_cell_cols, c.chip_width)
        n_uc_y == n_uc(c.unit_cell_rows, c.chip_height)
        array_left == uc_origin(n_uc_x, uc_w) - uc_w \div 2
        array_bottom == uc_origin(n_uc_y, uc_h) - uc_h \div 2
    IN {[cell |-> "align_cross",
         x |-> V4_um_to_dbu(array_left + ix * c.chip_width),
         y |-> V4_um_to_dbu(array_bottom + iy * c.chip_height)] :
            ix \in 1..(n_uc_x * c.unit_cell_cols - 1),
            iy \in 1..(n_uc_y * c.unit_cell_rows - 1)}

\* the cross instances create_alignment_marks inserts into the mask cell
cross_insts(c) ==
    LET uc_w == c.unit_cell_cols * c.chip_width
        uc_h == c.unit_cell_rows * c.chip_height
        n_uc_x == n_uc(c.unit_cell_cols, c.chip_width)
        n_uc_y == n_uc(c.unit_cell_rows, c.chip_height)
        array_left == uc_origin(n_uc_x, uc_w) - uc_w \div 2
        array_bottom == uc_origin(n_uc_y, uc_h) - uc_h \div 2
    IN {[cell |-> "align_cross",
         x |-> V4_um_to_dbu(array_left + ix * c.chip_width),
         y |-> V4_um_to_dbu(array_bottom + iy * c.chip_height)] :
            ix \in 0..(n_uc_x * c.unit_cell_cols),
            iy \in 0..(n_uc_y * c.unit_cell_rows)}

\* the cells below the mask cell that hold shapes of a layer: the chips of the
\* unit cell hold gold and platinum, the cross holds gold
cells_with_layer(d, layer) ==
    {i.cell : i \in {j \in d.insts :
                        \/ j.cell = "align_cross" /\ layer = "gold"
                        \/ j.cell = "unit_cell_3x3" /\ d.unit_cell # {}}}

\* pya.Region(cell.begin_shapes_rec(layer_idx)) & clip_region
clipped_region(d, layer) ==
    [layer |-> layer, kind |-> "clipped_region", clipped |-> TRUE,
     holds |-> cells_with_layer(d, layer)
                   \cup {sh.kind : sh \in {t \in d.shapes : t.layer = layer}}]

\* mutant: clip_to_radius without cell.clear()
clip_to_radius_kept_mut(d) ==
    [d EXCEPT !.shapes = @ \cup {clipped_region(d, layer) : layer \in {"gold", "platinum"}}]

\* clip_to_radius: both layers gathered and clipped, the cell cleared, the
\* clipped regions inserted
clip_to_radius(d) ==
    [d EXCEPT !.insts = {},
              !.shapes = {r \in {clipped_region(d, layer) : layer \in {"gold", "platinum"}} :
                              r.holds # {}}]

V4Start(c) ==
    [routine |-> "generate", v4 |-> c, pc |-> generate_calls[1], calls |-> <<>>,
     unit_cell |-> {}, insts |-> {}, shapes |-> {}, chip_count |-> 0, written |-> <<>>]

InitV4 ==
    /\ \E c \in V4Configs : ring = V4Start(c)
    /\ BuildStart(DefaultConfig)
    /\ run = 1
    /\ clock = 0
    /\ first = NoFirst
    /\ probe = NoProbe
    /\ probe_out = NoProbeOut

\* the designer after the call at its position has returned
returned_from(d) ==
    [d EXCEPT !.calls = Append(d.calls, d.pc),
              !.pc = IF Len(d.calls) + 1 < Len(generate_calls)
                     THEN generate_calls[Len(d.calls) + 2] ELSE "done"]

\* create_mask_plate_outline, create_wafer_outline, create_dicing_lanes: pass
V4_pass ==
    /\ ring.routine = "generate"
    /\ ring.pc \in {"create_mask_plate_outline", "create_wafer_outline", "create_dicing_lanes"}
    /\ ring' = returned_from(ring)
    /\ UNCHANGED <<build_vars, probe_vars>>

V4_create_chip_array ==
    /\ ring.routine = "generate" /\ ring.pc = "create_chip_array"
    /\ ring' = returned_from([ring EXCEPT !.unit_cell = V4_create_unit_cell(ring.v4),
                                           !.insts = @ \cup unit_cell_insts(ring.v4),
                                           !.chip_count = chip_count_of(ring.v4)])
    /\ UNCHANGED <<build_vars, probe_vars>>

V4_create_alignment_marks ==
    /\ ring.routine = "generate" /\ ring.pc = "create_alignment_marks"
    /\ ring' = returned_from([ring EXCEPT !.insts = @ \cup cross_insts(ring.v4)])
    /\ UNCHANGED <<build_vars, probe_vars>>

V4_clip_to_radius ==
    /\ ring.routine = "generate" /\ ring.pc = "clip_to_radius"
    /\ ring' = returned_from(clip_to_radius(ring))
    /\ UNCHANGED <<build_vars, probe_vars>>

\* create_gold_ring: cell.shapes(gold).insert(outer_shape - inner_shape)
V4_create_gold_ring ==
    /\ ring.routine = "generate" /\ ring.pc = "create_gold_ring"
    /\ ring' = returned_from(
                   [ring EXCEPT !.shapes = @ \cup {[layer |-> "gold", kind |-> "gold_ring",
                                                    clipped |-> FALSE, holds |-> {}]}])
    /\ UNCHANGED <<build_vars, probe_vars>>

\* create_mask_labels: a text block on the gold and on the platinum layer
V4_create_mask_labels ==
    /\ ring.routine = "generate" /\ ring.pc = "create_mask_labels"
    /\ ring' = returned_from(
                   [ring EXCEPT !.shapes = @ \cup {[layer |-> layer, kind |-> "label",
                                                    clipped |-> FALSE, holds |-> {}] :
                                                       layer \in {"gold", "platinum"}}])
    /\ UNCHANGED <<build_vars, probe_vars>>

\* self.layout.write(inspect_path) and self.layout.write(prod_path)
V4_write ==
    /\ ring.routine = "generate" /\ ring.pc = "write"
    /\ ring' = returned_from(
                   [ring EXCEPT !.written = <<[file |-> "inspect", shapes |-> ring.shapes,
                                              insts |-> ring.insts],
                                             [file |-> "prod", shapes |-> ring.shapes,
                                              insts |-> ring.insts]>>])
    /\ UNCHANGED <<build_vars, probe_vars>>

NextV4 ==
    \/ V4_pass
    \/ V4_create_chip_array
    \/ V4_create_alignment_marks
    \/ V4_clip_to_radius
    \/ V4_create_gold_ring
    \/ V4_create_mask_labels
    \/ V4_write

SpecV4 == InitV4 /\ [][NextV4]_vars

-----------------------------------------------------------------------------
(* C27 *)

\* the position of a call in the calls that have returned, 0 if it has not
call_index(name) ==
    IF \E i \in 1..Len(ring.calls) : ring.calls[i] = name
    THEN CHOOSE i \in 1..Len(ring.calls) : ring.calls[i] = name
    ELSE 0

called(name) == call_index(name) > 0

\* C27: in the V4 mask build clip_to_radius runs after the chip array and the
\* alignment marks are inserted and before the gold ring and the mask labels
\* are inserted, so ring and labels are never intersected with the clip
\* region; right after the clip the mask cell holds no child instance and
\* only the clipped gold and platinum geometry.
C27_ClipBetweenArrayAndRing ==
    /\ called("clip_to_radius") =>
           /\ called("create_chip_array") /\ called("create_alignment_marks")
           /\ call_index("create_chip_array") < call_index("clip_to_radius")
           /\ call_index("create_alignment_marks") < call_index("clip_to_radius")
    /\ \A name \in {"create_gold_ring", "create_mask_labels"} :
           called(name) => /\ called("clip_to_radius")
                           /\ call_index("clip_to_radius") < call_index(name)
    /\ \A sh \in ring.shapes :
           /\ sh.kind \in {"gold_ring", "label"} => ~sh.clipped
           /\ \A inner \in sh.holds : inner \notin {"gold_ring", "label"}
    /\ (ring.calls # <<>> /\ ring.calls[Len(ring.calls)] = "clip_to_radius") =>
           /\ ring.insts = {}
           /\ \A sh \in ring.shapes :
                  sh.kind = "clipped_region" /\ sh.clipped /\ sh.layer \in {"gold", "platinum"}

\* the clip has just run on a mask cell that held unit cells and crosses
C27_Witness ==
    /\ ring.routine = "generate"
    /\ ring.calls # <<>> /\ ring.calls[Len(ring.calls)] = "clip_to_radius"
    /\ ring.chip_count > 0
    /\ \E sh \in ring.shapes :
           sh.layer = "gold" /\ sh.holds = {"unit_cell_3x3", "align_cross"}
    /\ \E sh \in ring.shapes : sh.layer = "platinum" /\ sh.holds = {"unit_cell_3x3"}

-----------------------------------------------------------------------------
(* C28 *)

\* the variants list has one variant for every slot of the unit cell
variants_fill_unit_cell(c) == Len(c.variants) = c.unit_cell_cols * c.unit_cell_rows

\* chip array and alignment marks are in the mask cell, not yet clipped
marks_placed ==
    /\ ring.routine = "generate"
    /\ ring.calls # <<>> /\ ring.calls[Len(ring.calls)] = "create_alignment_marks"

cross_positions == {<<i.x, i.y>> : i \in {j \in ring.insts : j.cell = "align_cross"}}

\* the corners of the chips: a chip of the unit cell placed at u covers
\* chip_width x chip_height from the origin of its instance
chip_corners ==
    {<<u.x + ch.x + dx, u.y + ch.y + dy>> :
        u \in {j \in ring.insts : j.cell = "unit_cell_3x3"}, ch \in ring.unit_cell,
        dx \in {0, V4_um_to_dbu(ring.v4.chip_width)},
        dy \in {0, V4_um_to_dbu(ring.v4.chip_height)}}

\* C28: in the V4 mask the cross positions computed by create_alignment_marks
\* are the corner points of all chips placed by create_chip_array through
\* create_unit_cell, for every chip size and every unit cell that the
\* variants list fills, and there are (total_cols + 1) * (total_rows + 1)
\* crosses.
C28_CrossesAtChipCorners ==
    (marks_placed /\ variants_fill_unit_cell(ring.v4)) =>
        LET c == ring.v4
            total_cols == n_uc(c.unit_cell_cols, c.chip_width) * c.unit_cell_cols
            total_rows == n_uc(c.unit_cell_rows, c.chip_height) * c.unit_cell_rows
        IN /\ cross_positions = chip_corners
           /\ Cardinality(cross_positions) = (total_cols + 1) * (total_rows + 1)

-----------------------------------------------------------------------------
(* C29 *)

\* create_chip_array has returned and the mask cell is not yet clipped
chip_array_placed ==
    /\ ring.routine = "generate"
    /\ called("create_chip_array") /\ ~called("clip_to_radius")

\* the chip instance ch of the unit cell lies in the extent of the unit cell,
\* unit_cell_cols x unit_cell_rows chips centred at the origin of the cell
inside_unit_cell(c, ch) ==
    LET total_w == c.unit_cell_cols * c.chip_width
        total_h == c.unit_cell_rows * c.chip_height
    IN /\ wafer_dbu * ch.x >= 0 - total_w \div 2 - 1
       /\ wafer_dbu * ch.x + c.chip_width <= total_w \div 2 + 1
       /\ wafer_dbu * ch.y >= 0 - total_h \div 2 - 1
       /\ wafer_dbu * ch.y + c.chip_height <= total_h \div 2 + 1

\* C29: create_chip_array returns the number of chips placed: for every
\* variants list and every unit_cell_cols and unit_cell_rows the count
\* returned is the number of chip instances held by the unit-cell instances
\* inserted, and every such chip lies inside the extent of its unit cell.
C29_CountIsChipsPlaced ==
    chip_array_placed =>
        /\ ring.chip_count =
               Cardinality({j \in ring.insts : j.cell = "unit_cell_3x3"})
                   * Cardinality(ring.unit_cell)
        /\ \A ch \in ring.unit_cell : inside_unit_cell(ring.v4, ch)

-----------------------------------------------------------------------------
(* C30 *)

designer_constructed == probe.class = "MaskDesigner" /\ probe_out.constructed

\* the list the designer holds for an argument: the list given, and the
\* built-in defaults only when the argument is None
list_used(arg, held, default) ==
    IF given(arg) THEN held = arg[1] ELSE held = default

\* a slot beyond the end of the lists held falls back to the base chip
\* configuration and to a blank die
slots_fall_back(obj) ==
    \A k \in 1..Len(obj.chip_variant_cells) :
        /\ k > Len(obj.chip_configs) =>
               obj.chip_variant_cells[k].chip_config = obj.chip_configs[1]
        /\ k <= Len(obj.chip_configs) =>
               obj.chip_variant_cells[k].chip_config = obj.chip_configs[k]
        /\ k > Len(obj.omega_configs) => obj.chip_variant_cells[k].omega_config = omega_none
        /\ k <= Len(obj.omega_configs) =>
               obj.chip_variant_cells[k].omega_config = obj.omega_configs[k]

\* C30: MaskDesigner uses the configuration lists it is given: a chip_configs
\* or omega_configs list that is not None is the list used for synthesis, the
\* built-in defaults replace only an argument that is None, and a slot index
\* beyond the end of a list falls back to the base chip configuration and to
\* a blank die.
C30_GivenListsUsed ==
    designer_constructed =>
        /\ list_used(probe.chip_configs, probe_out.obj.chip_configs,
                     DefaultConfig.chip_configs)
        /\ list_used(probe.omega_configs, probe_out.obj.omega_configs,
                     DefaultConfig.omega_configs)
        /\ slots_fall_back(probe_out.obj)

====
